---- MODULE Spec2Model ----
(***************************************************************************)
(* Reward reconciliation pipeline of pendle-sonic-rewards.                 *)
(*                                                                         *)
(* Part 1 (SpecPager): the three offset pagers over the subgraph           *)
(*   getMarketClaimedRewards, getUserRewardRedemptions,                     *)
(*   getMarketRewardUpdates, each with its page fetcher.                    *)
(* Part 2 (SpecToken, SpecMarket): the process-wide token and market        *)
(*   metadata caches of web3/helper.ts under cooperative interleaving.      *)
(***************************************************************************)
EXTENDS Integers, Sequences, FiniteSets, TLC

\* ------------------------------------------------------------------------
\* Program constants and model bounds
\* ------------------------------------------------------------------------

\* const MAX_ITEMS_PER_PAGE = 1000
MAX_ITEMS_PER_PAGE == 1000

\* Datasets hold up to (MaxFullPages + 1) * MAX_ITEMS_PER_PAGE - 1 records.
MaxFullPages == 2

\* Records the indexer may add at the head of the dataset while a pager runs.
MaxInserts == 1

\* getTokenInfo calls made directly by the process (SpecToken).
MaxTokenCalls == 3

\* getMarketInfo calls made by the process (SpecMarket).
MaxMarketCalls == 2

\* constructor(cacheTimeoutMinutes: number = 2, ...)
CacheTimeoutMinutes == 2

\* getTokenPrice calls made by the process (SpecPrice).
MaxPriceCalls == 2

\* Cache-file writes that fail or are cut short (SpecPrice).
MaxDiskFaults == 1

\* Services constructed after the first one (SpecPrice).
MaxConstructions == 1

\* Reward lines in a list of amounts to format (SpecFormat).
MaxFormatLines == 2

\* Redeem events of the user report (SpecEnrich).
MaxEvents == 2

\* Contract reads that may fail in one run of the process.
MaxReadFailures == 2

Range(s) == {s[i] : i \in 1..Len(s)}

Min(a, b) == IF a < b THEN a ELSE b

\* ------------------------------------------------------------------------
\* Part 1: subgraph pagers
\* ------------------------------------------------------------------------

VARIABLES
    kind,          \* which paged fetch runs
    dataset,       \* the upstream entity list for the query, newest first
    inserts,       \* records added upstream since the fetch started
    pc,            \* "loop" | "awaiting" | "enrich" | "done" | "failed"
    allItems,      \* allRewards / allRedeemEvents / allUpdates
    currentPage,
    hasMoreData,
    requests,      \* history: skip of every request sent, in order
    outstanding,   \* requests sent and not yet answered
    pages,         \* history: pages in the order received
    errorsSeen,    \* history: error payloads the upstream answered with
    httpFailures,  \* history: number of non-OK HTTP answers
    thrown,        \* the error the fetch failed with
    result,        \* what the fetch returned to its caller
    pushed,        \* history: records pushed across an offset boundary
    sentAtFailure  \* history: number of requests sent when the fetch failed

pagerVars == <<kind, dataset, inserts, pc, allItems, currentPage, hasMoreData,
               requests, outstanding, pages, errorsSeen, httpFailures,
               thrown, result, pushed, sentAtFailure>>

PagerKinds == {"marketRewards", "redeemRewards", "rewardUpdates"}

\* Sizes around every page boundary: 0, 1, kP-1, kP, kP+1, and (K+1)P-1.
DatasetSizes ==
    {0, 1, (MaxFullPages + 1) * MAX_ITEMS_PER_PAGE - 1}
    \cup UNION {{k * MAX_ITEMS_PER_PAGE - 1, k * MAX_ITEMS_PER_PAGE,
                 k * MAX_ITEMS_PER_PAGE + 1} : k \in 1..MaxFullPages}

\* Records are named by their timestamp rank; orderDirection: desc puts the
\* newest first.
InitialDataset(n) == [i \in 1..n |-> n + 1 - i]

NoError == [name |-> "none", text |-> "", arg |-> ""]
NoResult == [returned |-> FALSE, items |-> <<>>]
Returned(items) == [returned |-> TRUE, items |-> items]

\* first: MAX_ITEMS_PER_PAGE, skip: $skip, evaluated by the upstream when
\* it answers.
QueryPage(data, skip) ==
    SubSeq(data, skip + 1, Min(skip + MAX_ITEMS_PER_PAGE, Len(data)))

\* Upstream answers.  errors is the GraphQL errors array (messages only);
\* hasData tells whether the payload carries a data object.
ErrorPayloads == {<<"bad_query", "indexing_error">>}

Responses(data, skip) ==
    {[ok |-> FALSE, status |-> s, errors |-> <<>>, hasData |-> FALSE,
      items |-> <<>>] : s \in {500}}
    \cup {[ok |-> TRUE, status |-> 200, errors |-> <<>>, hasData |-> TRUE,
           items |-> QueryPage(data, skip)]}
    \cup {[ok |-> TRUE, status |-> 200, errors |-> e, hasData |-> FALSE,
           items |-> <<>>] : e \in ErrorPayloads}
    \cup {[ok |-> TRUE, status |-> 200, errors |-> e, hasData |-> TRUE,
           items |-> QueryPage(data, skip)] : e \in ErrorPayloads}

HttpError(status) == [name |-> "Error", text |-> "HTTP error! status", arg |-> status]
GraphQLError(message) == [name |-> "Error", text |-> "GraphQL error", arg |-> message]
TypeError == [name |-> "TypeError", text |-> "Cannot read properties of undefined", arg |-> "rewardUpdates"]
ContractReadError == [name |-> "ContractFunctionExecutionError", text |-> "pendle", arg |-> "revert"]

Throw(e) == [thrown |-> TRUE, error |-> e, page |-> <<>>]
Page(p) == [thrown |-> FALSE, error |-> NoError, page |-> p]

\* result.data?.<field> || []
OptionalData(resp) == IF resp.hasData THEN resp.items ELSE <<>>

fetchMarketRewardsPage(resp) ==
    IF ~resp.ok THEN Throw(HttpError(resp.status))
    ELSE IF resp.errors # <<>> THEN Throw(GraphQLError(resp.errors[1]))
    ELSE Page(OptionalData(resp))

fetchUserRewardsPage(resp) ==
    IF ~resp.ok THEN Throw(HttpError(resp.status))
    ELSE IF resp.errors # <<>> THEN Throw(GraphQLError(resp.errors[1]))
    ELSE Page(OptionalData(resp))

\* No check of result.errors; result.data.rewardUpdates || [] dereferences
\* data without the optional chain.
fetchRewardUpdatesPage(resp) ==
    IF ~resp.ok THEN Throw(HttpError(resp.status))
    ELSE IF ~resp.hasData THEN Throw(TypeError)
    ELSE Page(resp.items)

FetchPage(k, resp) ==
    CASE k = "marketRewards" -> fetchMarketRewardsPage(resp)
      [] k = "redeemRewards" -> fetchUserRewardsPage(resp)
      [] k = "rewardUpdates" -> fetchRewardUpdatesPage(resp)

\* const skip = currentPage * MAX_ITEMS_PER_PAGE
Skip(page) == page * MAX_ITEMS_PER_PAGE

\* A pager that put each page in front of the ones before it.
Concatenate_Prepend(all, page) == page \o all

\* A pager that dropped the records it already holds.
Concatenate_Dedup(all, page) ==
    LET held == Range(all)
        Fresh(x) == x \notin held
    IN all \o SelectSeq(page, Fresh)

\* allRewards = [...allRewards, ...rewards]
Concatenate(all, page) == all \o page

\* A pager that took a full page for the last one.
MorePages_FullPageEnds(page) == ~(Len(page) <= MAX_ITEMS_PER_PAGE)

\* if (rewards.length < MAX_ITEMS_PER_PAGE) hasMoreData = false
MorePages(page) == ~(Len(page) < MAX_ITEMS_PER_PAGE)

\* A pager that swallowed the error and asked for the page again.
OnFetchThrown_Retry(e) == [pc |-> "loop", thrown |-> NoError]

\* On a thrown page fetch the catch block logs and rethrows.
OnFetchThrown(e) == [pc |-> "failed", thrown |-> e]


\* ------------------------------------------------------------------------
\* Part 2: token and market metadata caches (web3/helper.ts)
\* ------------------------------------------------------------------------

VARIABLES
    tokenCache,      \* const tokenCache = new Map<string, TokenInfo>()
    marketCache,     \* const marketCache = new Map<string, MarketInfo>()
    tasks,           \* the getTokenInfo / getMarketInfo calls of the process
    readsIssued,     \* history: name/symbol/decimals read triples per token
    returnsCount,    \* history: getTokenInfo calls returned per token
    returned,        \* history: descriptors getTokenInfo returned per token
    overlapped,      \* history: tokens that had two calls in flight at once
    readFailures,    \* history: contract reads that failed so far
    failureCached,   \* history: tokens for which a fallback was cached
    lateReturned,    \* history: descriptors returned by calls begun after that
    lateReads,       \* history: tokens read by calls begun after that
    marketReturned   \* history: descriptors getMarketInfo returned

metaVars == <<tokenCache, marketCache, tasks, readsIssued, returnsCount,
              returned, overlapped, readFailures, failureCached, lateReturned,
              lateReads, marketReturned>>

\* ------------------------------------------------------------------------
\* Part 3: the disk-backed price cache (web3/api/coinGecko.ts), state
\* ------------------------------------------------------------------------

VARIABLES
    priceCache,      \* private priceCache: Record<string, Record<string, ..>>
    cacheTimeoutMs,  \* private cacheTimeoutMs: number
    diskFile,        \* the file at cacheFilePath
    clock,           \* the last reading of Date.now()
    procUp,          \* the process that owns the service is running
    priceCalls,      \* the getTokenPrice calls in flight
    callsMade,       \* history: getTokenPrice calls made so far
    lastCall,        \* history: the last getTokenPrice call that ended
    lastOp,          \* history: the last operation on the service
    diskFaults,      \* history: cache-file writes that failed or were cut
    constructions,   \* history: services constructed after the first
    loadFailed       \* history: the last load found the file unparsable and
                     \* no getTokenPrice call was made since

priceVars == <<priceCache, cacheTimeoutMs, diskFile, clock, procUp, priceCalls,
               callsMade, lastCall, lastOp, diskFaults, constructions, loadFailed>>

\* ------------------------------------------------------------------------
\* Part 4: amount formatting (web3/numberUtils.ts), state
\* ------------------------------------------------------------------------

VARIABLES
    fmtAmounts,      \* the raw amounts of a list of reward lines (strings)
    fmtDecimals,     \* the decimals of their token
    fmtFormatted     \* formatTokenAmount of the amounts formatted so far

formatVars == <<fmtAmounts, fmtDecimals, fmtFormatted>>

\* ------------------------------------------------------------------------
\* Part 5: reward enrichment and totals (user/userRewards.ts), state
\* ------------------------------------------------------------------------

VARIABLES
    enrEvents,       \* allRedeemEvents: the events the pager fetched
    failingTokens,   \* the token contracts whose reads fail
    marketReads,     \* whether getRewardTokens / readTokens can be read
    enrPc,           \* where getUserRewardRedemptions and its caller stand
    eventIdx,        \* the event of the outer loop
    lineIdx,         \* the reward of the inner loop
    curMarket,       \* marketInfo of the event
    enrichedRewards, \* const enrichedRewards: RewardInfo[]
    enrichedEvents,  \* const enrichedEvents: RedeemEventInfo[]
    totals           \* what getTotalRewardsValue returned

enrichVars == <<enrEvents, failingTokens, marketReads, enrPc, eventIdx, lineIdx,
                curMarket, enrichedRewards, enrichedEvents, totals>>

\* ------------------------------------------------------------------------
\* Part 6: the position APR (user/positionAPR.ts), state
\* ------------------------------------------------------------------------

VARIABLES
    aprPc,           \* where calculatePendleAPR stands
    aprInput,        \* depositAmount and the days since depositDate
    aprPosition,     \* what getUserPosition returned
    aprTokens,       \* rewardTokenAddresses of getPendingRewards
    aprIdx,          \* the token of its loop
    aprToken,        \* symbol, decimals and tokenPrice of that token
    aprRewards,      \* const rewards: any[]
    aprTotalUSD,     \* let totalRewardsUSD, in cents
    aprFailures,     \* history: the reads and lookups that failed
    aprMarket,       \* marketAddress
    aprIssued,       \* history: the contract reads and price fetches issued
    aprResult        \* the portfolio item returned or the error thrown

aprVars == <<aprPc, aprInput, aprPosition, aprTokens, aprIdx, aprToken,
             aprRewards, aprTotalUSD, aprFailures, aprMarket, aprIssued,
             aprResult>>

\* ------------------------------------------------------------------------
\* Part 7: calculateAPR on its own (web3/helper.ts), state
\* ------------------------------------------------------------------------

VARIABLES
    calcArgs,        \* depositedTotalUSD, totalRewardsUSD (cents), daysElapsed
    calcResult       \* what the call returned or that it threw

calcVars == <<calcArgs, calcResult>>

\* ------------------------------------------------------------------------
\* Part 8: the report commands (the main functions), state
\* ------------------------------------------------------------------------

VARIABLES
    cmdName,         \* the report command that is run
    cmdArgs,         \* its required arguments are given
    cmdPc,           \* where main stands
    cmdFailure,      \* the error its computation or its export threw
    cmdStderr,       \* what console.error printed
    cmdExit          \* the exit status of the process once it has ended

cmdVars == <<cmdName, cmdArgs, cmdPc, cmdFailure, cmdStderr, cmdExit>>

\* ------------------------------------------------------------------------
\* Part 9: the PT fixed yield (user/pendlePTRewards.ts), state
\* ------------------------------------------------------------------------

VARIABLES
    ptChain,         \* expiry, lastLnImpliedRate and the user's PT balance
    ptInput,         \* depositAmount and purchaseDate
    ptNow,           \* Date.now(), in days
    ptPc,            \* where calculatePTFixedYieldOnChain stands
    ptLocals,        \* expiry, ptDecimals, ptBalance, marketState as read
    ptResult         \* the result, null, or the error thrown

ptVars == <<ptChain, ptInput, ptNow, ptPc, ptLocals, ptResult>>

\* ------------------------------------------------------------------------
\* Part 10: the subgraph mapping (subgraph/src/pendle-market-factory-v-3.ts),
\* state
\* ------------------------------------------------------------------------

VARIABLES
    sgCreateNewMarket,   \* the store's CreateNewMarket entities, by id
    sgMarket,            \* the store's Market entities, by id
    sgTemplates,         \* the PendleMarket data sources created, in order
    sgHandled            \* the events the handler was called with, in order

sgVars == <<sgCreateNewMarket, sgMarket, sgTemplates, sgHandled>>

vars == <<sgVars, ptVars, cmdVars, calcVars, pagerVars, metaVars, priceVars, formatVars, enrichVars, aprVars>>

\* What an action of one part leaves alone in the other parts.
pagerRest == <<sgVars, ptVars, cmdVars, calcVars, metaVars, priceVars, formatVars, enrichVars, aprVars>>
metaRest == <<sgVars, ptVars, cmdVars, calcVars, pagerVars, priceVars, formatVars, enrichVars, aprVars>>
priceRest == <<sgVars, ptVars, cmdVars, calcVars, pagerVars, metaVars, formatVars, enrichVars, aprVars>>
formatRest == <<sgVars, ptVars, cmdVars, calcVars, pagerVars, metaVars, priceVars, enrichVars, aprVars>>
\* The enricher uses tokenCache and marketCache of web3/helper.ts.
enrichRest == <<sgVars, ptVars, cmdVars, calcVars, pagerVars, priceVars, formatVars, aprVars, tasks, readsIssued,
                returnsCount, returned, overlapped, readFailures, failureCached,
                lateReturned, lateReads, marketReturned>>
\* The position APR uses them too, and the price service.
aprRest == <<sgVars, ptVars, cmdVars, calcVars, pagerVars, formatVars, enrichVars, tasks, readsIssued,
             returnsCount, returned, overlapped, readFailures, failureCached,
             lateReturned, lateReads, marketReturned>>
calcRest == <<sgVars, ptVars, cmdVars, pagerVars, metaVars, priceVars, formatVars, enrichVars, aprVars>>
cmdRest == <<sgVars, ptVars, calcVars, pagerVars, metaVars, priceVars, formatVars, enrichVars, aprVars>>
ptRest == <<sgVars, cmdVars, calcVars, pagerVars, metaVars, priceVars, formatVars, enrichVars, aprVars>>
sgRest == <<ptVars, cmdVars, calcVars, pagerVars, metaVars, priceVars, formatVars, enrichVars, aprVars>>

\* An address is a contract and the letter case it is written in.
Cases == {"checksum", "lower"}
Addr(id, c) == <<id, c>>
Undefined == <<"undefined", "undefined">>

\* address.toLowerCase()
toLowerCase(address) == <<address[1], "lower">>

TokenIds == {"SY", "PT", "YT", "RA", "RB"}
DirectTokenIds == {"RA", "RB"}
MarketId == "MARKET"

\* Chain state: the ERC-20 fields and the market's token lists, as the
\* contract reads return them.
ERC20(id) == [name |-> id, symbol |-> IF id = "RP" THEN "PENDLE" ELSE id,
              decimals |-> IF id = "RA" THEN 6 ELSE 18]
readTokens == <<Addr("SY", "checksum"), Addr("PT", "checksum"), Addr("YT", "checksum")>>
getRewardTokens == <<Addr("RA", "checksum"), Addr("RB", "checksum")>>
\* A second market, whose reward tokens are not in the table of feed ids:
\* RC, and RP whose symbol() is "PENDLE".
OtherMarketId == "MARKET2"
RewardTokensOf(market) ==
    IF market[1] = OtherMarketId
    THEN <<Addr("RC", "checksum"), Addr("RP", "checksum")>>
    ELSE getRewardTokens

Null == [address |-> Undefined, name |-> "null", symbol |-> "null", decimals |-> 0]

TokenInfo(address) ==
    [address |-> address, name |-> ERC20(address[1]).name,
     symbol |-> ERC20(address[1]).symbol, decimals |-> ERC20(address[1]).decimals]

FallbackInfo(address) ==
    [address |-> address, name |-> "Unknown Token", symbol |-> "UNKNOWN",
     decimals |-> 18]

\* A cache keyed by the address as given.
CacheKey_AsGiven(address) == address

\* const cacheKey = address.toLowerCase()
CacheKey(address) == toLowerCase(address)

CacheHas(cache, key) == key \in DOMAIN cache
CacheSet(cache, key, value) ==
    [k \in (DOMAIN cache) \cup {key} |-> IF k = key THEN value ELSE cache[k]]

NoCall == [st |-> "none", addr |-> Undefined, late |-> FALSE, value |-> Null]

MarketInfo(address, pt, yt, sy, rewards) ==
    [address |-> address, principalToken |-> pt, yieldToken |-> yt,
     standardizedYield |-> sy, rewardTokens |-> rewards]

NoMarketInfo == MarketInfo(Undefined, Null, Null, Null, <<>>)

NewTask(fn, address) ==
    [fn |-> fn, address |-> address, pc |-> "running", stage |-> 0,
     sub |-> NoCall, readFailed |-> FALSE,
     rewardTokenAddresses |-> <<>>, marketTokens |-> <<>>,
     principalToken |-> Null, standardizedYield |-> Null, yieldToken |-> Null,
     rewardTokens |-> <<>>, ret |-> NoMarketInfo]

\* Calls of getTokenInfo on the contract id that are awaiting their reads.
InFlight(id) ==
    {t \in 1..Len(tasks) : tasks[t].sub.st = "reading" /\ tasks[t].sub.addr[1] = id}

\* getTokenInfo up to its first await: the falsy-address return, the cache
\* hit, or the three reads issued together.
getTokenInfo_Begin(address) ==
    IF address = Undefined
      THEN [st |-> "resolved", addr |-> address, late |-> FALSE, value |-> Null]
    ELSE IF CacheHas(tokenCache, CacheKey(address))
      THEN [st |-> "resolved", addr |-> address,
            late |-> address[1] \in failureCached,
            value |-> tokenCache[CacheKey(address)]]
    ELSE [st |-> "reading", addr |-> address,
          late |-> address[1] \in failureCached, value |-> Null]

\* getTokenInfo after Promise.all settles: the descriptor built from the
\* reads, or the placeholder of the catch block.
getTokenInfo_Settle(address, readsOk) ==
    IF readsOk THEN TokenInfo(address) ELSE FallbackInfo(address)

\* History kept when a call begins (sub is what getTokenInfo_Begin gave).
RecordBegin(sub) ==
    LET id == sub.addr[1] IN
    IF sub.addr = Undefined
      THEN UNCHANGED <<readsIssued, returnsCount, returned, overlapped,
                       lateReturned, lateReads>>
      ELSE /\ overlapped' = IF InFlight(id) # {} THEN overlapped \cup {id}
                                                ELSE overlapped
           /\ readsIssued' = IF sub.st = "reading"
                               THEN [readsIssued EXCEPT ![id] = @ + 1]
                               ELSE readsIssued
           /\ lateReads' = IF sub.st = "reading" /\ sub.late
                             THEN lateReads \cup {id} ELSE lateReads
           /\ returnsCount' = IF sub.st = "resolved"
                                THEN [returnsCount EXCEPT ![id] = @ + 1]
                                ELSE returnsCount
           /\ returned' = IF sub.st = "resolved"
                            THEN [returned EXCEPT ![id] = @ \cup {sub.value}]
                            ELSE returned
           /\ lateReturned' = IF sub.st = "resolved" /\ sub.late
                                THEN [lateReturned EXCEPT ![id] = @ \cup {sub.value}]
                                ELSE lateReturned

InitMeta ==
    /\ tokenCache = <<>>
    /\ marketCache = <<>>
    /\ tasks = <<>>
    /\ readsIssued = [id \in TokenIds |-> 0]
    /\ returnsCount = [id \in TokenIds |-> 0]
    /\ returned = [id \in TokenIds |-> {}]
    /\ overlapped = {}
    /\ readFailures = 0
    /\ failureCached = {}
    /\ lateReturned = [id \in TokenIds |-> {}]
    /\ lateReads = {}
    /\ marketReturned = {}

\* The process calls getTokenInfo(address).
StartTokenCall ==
    /\ Len(tasks) < MaxTokenCalls
    /\ \E id \in DirectTokenIds, c \in Cases :
         LET sub == getTokenInfo_Begin(Addr(id, c)) IN
         /\ tasks' = Append(tasks, [NewTask("getTokenInfo", Addr(id, c))
                                      EXCEPT !.sub = sub,
                                             !.pc = IF sub.st = "resolved"
                                                      THEN "done" ELSE "running"])
         /\ RecordBegin(sub)
    /\ UNCHANGED <<tokenCache, marketCache, readFailures, failureCached,
                   marketReturned>>
    /\ UNCHANGED metaRest

\* The reads of one getTokenInfo call settle (all fulfilled, or one
\* rejected); the call stores its descriptor and returns it.
TokenReadsSettle ==
    \E t \in 1..Len(tasks), readsOk \in BOOLEAN :
      LET sub == tasks[t].sub
          id == sub.addr[1]
          info == getTokenInfo_Settle(sub.addr, readsOk)
      IN
      /\ sub.st = "reading"
      /\ readsOk \/ readFailures < MaxReadFailures
      /\ readFailures' = IF readsOk THEN readFailures ELSE readFailures + 1
      /\ tokenCache' = CacheSet(tokenCache, CacheKey(sub.addr), info)
      /\ tasks' = [tasks EXCEPT ![t].sub = [sub EXCEPT !.st = "resolved", !.value = info],
                                ![t].pc = IF tasks[t].fn = "getTokenInfo"
                                            THEN "done" ELSE @]
      /\ failureCached' = IF readsOk THEN failureCached ELSE failureCached \cup {id}
      /\ returnsCount' = [returnsCount EXCEPT ![id] = @ + 1]
      /\ returned' = [returned EXCEPT ![id] = @ \cup {info}]
      /\ lateReturned' = IF sub.late
                           THEN [lateReturned EXCEPT ![id] = @ \cup {info}]
                           ELSE lateReturned
      /\ UNCHANGED <<marketCache, readsIssued, overlapped, lateReads, marketReturned>>
      /\ UNCHANGED metaRest

\* const [syAddress, principalTokenAddress, ytAddress] = marketTokens
ElementOrUndefined(list, i) == IF i <= Len(list) THEN list[i] ELSE Undefined

\* The getTokenInfo calls of getMarketInfo, in order: stage 1 the principal
\* token, 2 the standardized yield, 3 the yield token, 3 + i the i-th reward
\* token.
StageAddress(task, j) ==
    CASE j = 1 -> ElementOrUndefined(task.marketTokens, 2)
      [] j = 2 -> ElementOrUndefined(task.marketTokens, 1)
      [] j = 3 -> ElementOrUndefined(task.marketTokens, 3)
      [] OTHER -> task.rewardTokenAddresses[j - 3]

LastStage(task) == 3 + Len(task.rewardTokenAddresses)

\* getTokenInfo(principalTokenAddress) is always called; the SY and YT calls
\* are made only for a truthy address; the loop runs once per reward token.
StageCalls(task, j) ==
    \/ j = 1
    \/ j \in {2, 3} /\ StageAddress(task, j) # Undefined
    \/ j > 3 /\ j <= LastStage(task)

\* The next stage after k that calls getTokenInfo, or 0 when none is left.
NextStage(task, k) ==
    LET later == {j \in (k + 1)..LastStage(task) : StageCalls(task, j)}
    IN IF later = {} THEN 0
       ELSE CHOOSE j \in later : \A i \in later : j <= i

\* The awaited value of stage k stored in its local:
\* tokenInfo && rewardTokens.push(tokenInfo) for a reward token.
StoreStage(task, k, value) ==
    CASE k = 1 -> [task EXCEPT !.principalToken = value]
      [] k = 2 -> [task EXCEPT !.standardizedYield = value]
      [] k = 3 -> [task EXCEPT !.yieldToken = value]
      [] OTHER -> IF value # Null
                    THEN [task EXCEPT !.rewardTokens = Append(@, value)]
                    ELSE task

\* const marketInfo = { address, principalToken, yieldToken,
\* standardizedYield, rewardTokens, createdAt } (createdAt is left out).
BuildMarketInfo(task) ==
    MarketInfo(task.address, task.principalToken, task.yieldToken,
               task.standardizedYield, task.rewardTokens)

\* .catch(() => [] as Address[]) on each of the two market reads.
ReadOrEmpty(ok, value) == IF ok THEN value ELSE <<>>

\* The process calls getMarketInfo(marketAddress): a cache hit returns the
\* stored descriptor, a miss issues getRewardTokens and readTokens together.
StartMarketCall ==
    /\ Len(tasks) < MaxMarketCalls
    /\ \E c \in Cases :
         LET address == Addr(MarketId, c)
             key == toLowerCase(address)
         IN
         IF CacheHas(marketCache, key)
           THEN /\ tasks' = Append(tasks, [NewTask("getMarketInfo", address)
                                 EXCEPT !.pc = "done", !.ret = marketCache[key]])
                /\ marketReturned' = marketReturned \cup {marketCache[key]}
           ELSE /\ tasks' = Append(tasks, NewTask("getMarketInfo", address))
                /\ UNCHANGED marketReturned
    /\ UNCHANGED <<tokenCache, marketCache, readsIssued, returnsCount, returned,
                   overlapped, readFailures, failureCached, lateReturned,
                   lateReads>>
    /\ UNCHANGED metaRest

\* Promise.all of the two market reads settles (each read fulfilled, or
\* rejected and replaced by []); the call goes on to
\* getTokenInfo(principalTokenAddress).
MarketReadsSettle ==
    \E t \in 1..Len(tasks), rewardsOk \in BOOLEAN, tokensOk \in BOOLEAN :
      LET read == [tasks[t] EXCEPT
                     !.rewardTokenAddresses = ReadOrEmpty(rewardsOk, getRewardTokens),
                     !.marketTokens = ReadOrEmpty(tokensOk, readTokens),
                     !.readFailed = ~rewardsOk \/ ~tokensOk,
                     !.stage = 1]
          sub == getTokenInfo_Begin(StageAddress(read, 1))
          failed == (IF rewardsOk THEN 0 ELSE 1) + (IF tokensOk THEN 0 ELSE 1)
      IN
      /\ tasks[t].fn = "getMarketInfo"
      /\ tasks[t].pc = "running"
      /\ tasks[t].stage = 0
      /\ readFailures + failed <= MaxReadFailures
      /\ readFailures' = readFailures + failed
      /\ tasks' = [tasks EXCEPT ![t] = [read EXCEPT !.sub = sub]]
      /\ RecordBegin(sub)
      /\ UNCHANGED <<tokenCache, marketCache, failureCached, marketReturned>>
      /\ UNCHANGED metaRest

\* The awaited getTokenInfo of the current stage has returned: its value is
\* stored, and the call runs on to the next getTokenInfo or, when none is
\* left, stores the market descriptor and returns it.
MarketContinue ==
    \E t \in 1..Len(tasks) :
      LET stored == StoreStage(tasks[t], tasks[t].stage, tasks[t].sub.value)
          next == NextStage(stored, tasks[t].stage)
          sub == getTokenInfo_Begin(StageAddress(stored, next))
          info == BuildMarketInfo(stored)
      IN
      /\ tasks[t].fn = "getMarketInfo"
      /\ tasks[t].pc = "running"
      /\ tasks[t].stage >= 1
      /\ tasks[t].sub.st = "resolved"
      /\ IF next # 0
           THEN /\ tasks' = [tasks EXCEPT ![t] = [stored EXCEPT !.stage = next,
                                                               !.sub = sub]]
                /\ RecordBegin(sub)
                /\ UNCHANGED <<marketCache, marketReturned>>
           ELSE /\ tasks' = [tasks EXCEPT ![t] = [stored EXCEPT !.pc = "done",
                                                               !.sub = NoCall,
                                                               !.ret = info]]
                /\ marketCache' = CacheSet(marketCache, toLowerCase(stored.address), info)
                /\ marketReturned' = marketReturned \cup {info}
                /\ UNCHANGED <<readsIssued, returnsCount, returned, overlapped,
                               lateReturned, lateReads>>
      /\ UNCHANGED <<tokenCache, readFailures, failureCached>>
      /\ UNCHANGED metaRest


InitPager ==
    /\ kind \in PagerKinds
    /\ \E n \in DatasetSizes : dataset = InitialDataset(n)
    /\ inserts = 0
    /\ pc = "loop"
    /\ allItems = <<>>
    /\ currentPage = 0
    /\ hasMoreData = TRUE
    /\ requests = <<>>
    /\ outstanding = {}
    /\ pages = <<>>
    /\ errorsSeen = <<>>
    /\ httpFailures = 0
    /\ thrown = NoError
    /\ result = NoResult
    /\ pushed = {}
    /\ sentAtFailure = 0

\* while (hasMoreData) { const skip = ...; await fetch...Page(..., skip)
SendRequest ==
    /\ pc = "loop"
    /\ hasMoreData
    /\ requests' = Append(requests, Skip(currentPage))
    /\ outstanding' = outstanding \cup {Len(requests) + 1}
    /\ pc' = "awaiting"
    /\ UNCHANGED <<kind, dataset, inserts, allItems, currentPage, hasMoreData,
                   pages, errorsSeen, httpFailures, thrown, result, pushed,
                   sentAtFailure>>
    /\ UNCHANGED pagerRest

\* The upstream answers the outstanding request and the loop body runs to
\* its end.
ReceivePage ==
    /\ pc = "awaiting"
    /\ \E r \in outstanding :
         \E resp \in Responses(dataset, requests[r]) :
           LET got == FetchPage(kind, resp) IN
           /\ outstanding' = outstanding \ {r}
           /\ errorsSeen' = IF resp.errors # <<>>
                              THEN Append(errorsSeen, resp.errors)
                              ELSE errorsSeen
           /\ httpFailures' = IF resp.ok THEN httpFailures ELSE httpFailures + 1
           /\ IF got.thrown
                THEN /\ pc' = OnFetchThrown(got.error).pc
                     /\ thrown' = OnFetchThrown(got.error).thrown
                     /\ sentAtFailure' = Len(requests)
                     /\ UNCHANGED <<allItems, currentPage, hasMoreData, pages>>
                ELSE /\ allItems' = Concatenate(allItems, got.page)
                     /\ currentPage' = currentPage + 1
                     /\ hasMoreData' = MorePages(got.page)
                     /\ pages' = Append(pages, got.page)
                     /\ pc' = IF MorePages(got.page) THEN "loop" ELSE "enrich"
                     /\ UNCHANGED <<thrown, sentAtFailure>>
    /\ UNCHANGED <<kind, dataset, inserts, requests, result, pushed>>
    /\ UNCHANGED pagerRest

\* The market and reward-update reports read the PENDLE token address from
\* the gauge controller (a contract read that may revert) before mapping;
\* the user report maps each event without a read that can throw
\* (getMarketInfo and getTokenInfo catch their own failures).
Enrich ==
    /\ pc = "enrich"
    /\ \E pendleReadOk \in BOOLEAN :
         IF kind # "redeemRewards" /\ ~pendleReadOk
           THEN /\ pc' = "failed"
                /\ thrown' = ContractReadError
                /\ sentAtFailure' = Len(requests)
                /\ UNCHANGED result
           ELSE /\ pc' = "done"
                /\ result' = Returned([i \in 1..Len(allItems) |-> allItems[i]])
                /\ UNCHANGED <<thrown, sentAtFailure>>
    /\ UNCHANGED <<kind, dataset, inserts, allItems, currentPage, hasMoreData,
                   requests, outstanding, pages, errorsSeen, httpFailures,
                   pushed>>
    /\ UNCHANGED pagerRest

\* The indexer adds a newer record at the head of the ordered dataset while
\* the pager is between its first request and its last page.  The record at
\* the offset boundary of the pages already read is pushed into the next
\* page.
IndexerInsert ==
    /\ pc \in {"loop", "awaiting"}
    /\ inserts < MaxInserts
    /\ inserts' = inserts + 1
    /\ dataset' = <<Len(dataset) + 1>> \o dataset
    /\ pushed' = IF currentPage >= 1 /\ Len(dataset) >= Skip(currentPage)
                   THEN pushed \cup {dataset[Skip(currentPage)]}
                   ELSE pushed
    /\ UNCHANGED <<kind, pc, allItems, currentPage, hasMoreData, requests,
                   outstanding, pages, errorsSeen, httpFailures, thrown,
                   result, sentAtFailure>>
    /\ UNCHANGED pagerRest

\* ------------------------------------------------------------------------
\* Part 3: the disk-backed price cache (web3/api/coinGecko.ts)
\* ------------------------------------------------------------------------

\* tokenId arguments of getTokenPrice; the currency is the default 'usd'.
FeedIds == {"pendle", "sonic-token"}
\* Prices the feed may answer with.
Prices == {1, 2}
\* Milliseconds between two readings of Date.now(), around the timeouts of
\* 1 and 2 minutes.
Elapsed == {60000, 120000}
\* Arguments of setCacheTimeout that change the timeout.
TimeoutMinutes == {1}

\* priceCache[tokenId][currency]: { price, timestamp } or undefined.
NoEntry == [set |-> FALSE, price |-> 0, timestamp |-> 0]
Entry(price, timestamp) == [set |-> TRUE, price |-> price, timestamp |-> timestamp]

\* An object is the sequence of its members in insertion order.
HasKey(cache, tokenId) == \E i \in 1..Len(cache) : cache[i].key = tokenId
IndexOfKey(cache, tokenId) == CHOOSE i \in 1..Len(cache) : cache[i].key = tokenId
\* priceCache[tokenId][currency]
GetEntry(cache, tokenId) ==
    IF HasKey(cache, tokenId) THEN cache[IndexOfKey(cache, tokenId)].usd ELSE NoEntry
\* if (!this.priceCache[tokenId]) this.priceCache[tokenId] = {}
EnsureInner(cache, tokenId) ==
    IF HasKey(cache, tokenId) THEN cache
    ELSE Append(cache, [key |-> tokenId, usd |-> NoEntry])
\* this.priceCache[tokenId][currency] = { price, timestamp: now }
SetEntry(cache, tokenId, entry) ==
    [cache EXCEPT ![IndexOfKey(cache, tokenId)].usd = entry]

\* The (tokenId, currency) entries an object holds.
Entries(cache) ==
    {[key |-> cache[i].key, price |-> cache[i].usd.price,
      timestamp |-> cache[i].usd.timestamp] : i \in {j \in 1..Len(cache) : cache[j].usd.set}}

\* JSON text as the sequence of its tokens (white space is not a token).
Tok(k, s, n) == [k |-> k, s |-> s, n |-> n]
LBrace == Tok("{", "", 0)
RBrace == Tok("}", "", 0)
Comma == Tok(",", "", 0)
Key(s) == Tok("key", s, 0)
Num(n) == Tok("num", "", n)

StringifyEntry(e) ==
    <<LBrace, Key("price"), Num(e.price), Comma,
      Key("timestamp"), Num(e.timestamp), RBrace>>
StringifyInner(m) ==
    IF m.usd.set THEN <<LBrace, Key("usd")>> \o StringifyEntry(m.usd) \o <<RBrace>>
    ELSE <<LBrace, RBrace>>
RECURSIVE StringifyMembers(_)
StringifyMembers(ms) ==
    IF ms = <<>> THEN <<>>
    ELSE <<Key(Head(ms).key)>> \o StringifyInner(Head(ms))
         \o (IF Len(ms) > 1 THEN <<Comma>> ELSE <<>>)
         \o StringifyMembers(Tail(ms))
\* A writer that writes the last member only.
JSON_stringify_LastMember(cache) ==
    <<LBrace>> \o StringifyMembers(SubSeq(cache, Len(cache), Len(cache))) \o <<RBrace>>

\* JSON.stringify(this.priceCache, null, 2)
JSON_stringify(cache) == <<LBrace>> \o StringifyMembers(cache) \o <<RBrace>>

\* JSON.parse by recursive descent: the numbers found with their paths, the
\* objects found in document order, and the tokens left over.
SyntaxError == [ok |-> FALSE, leaves |-> {}, objs |-> <<>>, rest |-> <<>>]
RECURSIVE ParseValue(_, _)
RECURSIVE ParseMembers(_, _)
ParseValue(toks, path) ==
    IF toks = <<>> THEN SyntaxError
    ELSE IF Head(toks).k = "num"
      THEN [ok |-> TRUE, leaves |-> {[path |-> path, n |-> Head(toks).n]},
            objs |-> <<>>, rest |-> Tail(toks)]
    ELSE IF Head(toks) = LBrace
      THEN IF Len(toks) >= 2 /\ toks[2] = RBrace
             THEN [ok |-> TRUE, leaves |-> {}, objs |-> <<path>>,
                   rest |-> SubSeq(toks, 3, Len(toks))]
             ELSE LET m == ParseMembers(Tail(toks), path) IN
                  IF m.ok THEN [m EXCEPT !.objs = <<path>> \o m.objs]
                  ELSE SyntaxError
    ELSE SyntaxError
ParseMembers(toks, path) ==
    IF toks = <<>> \/ Head(toks).k # "key" THEN SyntaxError
    ELSE LET v == ParseValue(Tail(toks), Append(path, Head(toks).s)) IN
         IF ~v.ok \/ v.rest = <<>> THEN SyntaxError
         ELSE IF Head(v.rest) = RBrace THEN [v EXCEPT !.rest = Tail(v.rest)]
         ELSE IF Head(v.rest) = Comma
           THEN LET m == ParseMembers(Tail(v.rest), path) IN
                IF m.ok THEN [m EXCEPT !.leaves = v.leaves \cup m.leaves,
                                       !.objs = v.objs \o m.objs]
                ELSE SyntaxError
         ELSE SyntaxError
JSON_parse(toks) ==
    LET v == ParseValue(toks, <<>>) IN
    IF v.ok /\ v.rest = <<>> THEN v ELSE SyntaxError

\* The parsed document read as Record<string, Record<string, entry>>.
IsTopLevel(path) == Len(path) = 1
LeafAt(v, path) ==
    IF \E l \in v.leaves : l.path = path
    THEN (CHOOSE l \in v.leaves : l.path = path).n ELSE 0
ParsedMember(v, path) ==
    [key |-> path[1],
     usd |-> IF \E i \in 1..Len(v.objs) : v.objs[i] = <<path[1], "usd">>
             THEN Entry(LeafAt(v, <<path[1], "usd", "price">>),
                        LeafAt(v, <<path[1], "usd", "timestamp">>))
             ELSE NoEntry]
AsPriceCache(v) ==
    LET tops == SelectSeq(v.objs, IsTopLevel) IN
    [i \in 1..Len(tops) |-> ParsedMember(v, tops[i])]

\* The file at cacheFilePath.
NoFile == [exists |-> FALSE, content |-> <<>>]
File(content) == [exists |-> TRUE, content |-> content]

\* loadCacheFromDisk without its try/catch: the SyntaxError escapes.
loadCacheFromDisk_NoCatch(file) ==
    IF ~file.exists THEN [threw |-> FALSE, cache |-> <<>>]
    ELSE LET v == JSON_parse(file.content) IN
         IF v.ok THEN [threw |-> FALSE, cache |-> AsPriceCache(v)]
         ELSE [threw |-> TRUE, cache |-> <<>>]

\* loadCacheFromDisk, run on the empty cache of a new service.
loadCacheFromDisk(file) ==
    IF ~file.exists THEN [threw |-> FALSE, cache |-> <<>>]
    ELSE LET v == JSON_parse(file.content) IN
         IF v.ok THEN [threw |-> FALSE, cache |-> AsPriceCache(v)]
         ELSE [threw |-> FALSE, cache |-> <<>>]

\* fs.writeFileSync(path, text): done, failed with an error (the file is
\* left as it was or cut short), or cut short by the death of the process.
\* The places a write is cut at: before the first token, after it, half way
\* and before the last token.
CutPoints(text) == {0, 1, Len(text) \div 2, Len(text) - 1}
Prefixes(text) == {SubSeq(text, 1, k) : k \in CutPoints(text)}
WriteOutcomes(file, text, mayFail) ==
    {[file |-> File(text), error |-> FALSE, died |-> FALSE]}
    \cup (IF mayFail
          THEN {[file |-> file, error |-> TRUE, died |-> FALSE]}
               \cup {[file |-> File(p), error |-> TRUE, died |-> FALSE] : p \in Prefixes(text)}
               \cup {[file |-> File(p), error |-> FALSE, died |-> TRUE] : p \in Prefixes(text)}
          ELSE {})

\* saveCacheToDisk: a write error is logged and swallowed.
saveCacheToDisk(file, cache, mayFail) == WriteOutcomes(file, JSON_stringify(cache), mayFail)

\* The hit test with the bound included.
IsFresh_Inclusive(cachedData, now, timeoutMs) ==
    cachedData.set /\ now - cachedData.timestamp <= timeoutMs

\* if (cachedData && now - cachedData.timestamp < this.cacheTimeoutMs)
IsFresh(cachedData, now, timeoutMs) ==
    cachedData.set /\ now - cachedData.timestamp < timeoutMs

\* The catch block without the fallback to the cached entry.
OnFetchFailed_NoFallback(cachedData) == [threw |-> TRUE, value |-> 0]

\* catch (error) { if (cachedData) return cachedData.price; throw error }
OnFetchFailed(cachedData) ==
    IF cachedData.set THEN [threw |-> FALSE, value |-> cachedData.price]
    ELSE [threw |-> TRUE, value |-> 0]

\* What the feed answers to one request.
FetchOutcomes ==
    {[kind |-> "ok", price |-> p] : p \in Prices}
    \cup {[kind |-> k, price |-> 0] : k \in {"network_error", "http_error", "no_data"}}

NoOp == [op |-> "none", wrote |-> FALSE]

\* One getTokenPrice call.
NewPriceCall(tokenId, cachedData, now, timeoutMs, stored) ==
    [tokenId |-> tokenId, cachedData |-> cachedData, now |-> now,
     timeoutMs |-> timeoutMs, stored |-> stored, pc |-> "fetching",
     fetched |-> FALSE, fetchOk |-> FALSE, value |-> 0,
     storedAtFailure |-> NoEntry, afterBadLoad |-> FALSE]

PriceInFlight == 1..Len(priceCalls)
NoPriceCall == [NewPriceCall("", NoEntry, 0, 0, NoEntry) EXCEPT !.pc = "none"]
RemoveAt(s, i) == SubSeq(s, 1, i - 1) \o SubSeq(s, i + 1, Len(s))

\* new CoinGeckoService() at module load, with no cache file yet.
InitPrice ==
    /\ priceCache = <<>>
    /\ cacheTimeoutMs = CacheTimeoutMinutes * 60 * 1000
    /\ diskFile = NoFile
    /\ clock = 0
    /\ procUp = TRUE
    /\ priceCalls = <<>>
    /\ callsMade = 0
    /\ lastCall = NoPriceCall
    /\ lastOp = NoOp
    /\ diskFaults = 0
    /\ constructions = 0
    /\ loadFailed = FALSE

\* getTokenPrice(tokenId) up to its await: the callers await each call
\* before they make the next one.
StartPriceCall ==
    /\ procUp
    /\ PriceInFlight = {}
    /\ callsMade < MaxPriceCalls
    /\ \E tokenId \in FeedIds, elapsed \in Elapsed :
         LET cache == EnsureInner(priceCache, tokenId)
             cachedData == GetEntry(cache, tokenId)
             now == clock + elapsed
             call == [NewPriceCall(tokenId, cachedData, now, cacheTimeoutMs,
                                   GetEntry(priceCache, tokenId))
                        EXCEPT !.afterBadLoad = loadFailed]
         IN
         /\ priceCache' = cache
         /\ clock' = now
         /\ IF IsFresh(cachedData, now, cacheTimeoutMs)
            THEN /\ lastCall' = [call EXCEPT !.pc = "returned",
                                             !.value = cachedData.price]
                 /\ lastOp' = [NoOp EXCEPT !.op = "hit"]
                 /\ UNCHANGED priceCalls
            ELSE /\ priceCalls' = Append(priceCalls, [call EXCEPT !.fetched = TRUE])
                 /\ lastOp' = [NoOp EXCEPT !.op = "fetching"]
                 /\ UNCHANGED lastCall
    /\ callsMade' = callsMade + 1
    /\ loadFailed' = FALSE
    /\ UNCHANGED <<cacheTimeoutMs, diskFile, procUp, diskFaults, constructions>>
    /\ UNCHANGED priceRest

\* getTokenPrice(tokenId) up to its await, begun while an earlier call still
\* awaits its fetch: the service is a shared object and does not make its
\* callers wait for one another.
StartPriceCallOverlapping ==
    /\ procUp
    /\ PriceInFlight # {}
    /\ callsMade < MaxPriceCalls
    /\ \E tokenId \in FeedIds, elapsed \in Elapsed :
         LET cache == EnsureInner(priceCache, tokenId)
             cachedData == GetEntry(cache, tokenId)
             now == clock + elapsed
             call == [NewPriceCall(tokenId, cachedData, now, cacheTimeoutMs,
                                   GetEntry(priceCache, tokenId))
                        EXCEPT !.afterBadLoad = loadFailed]
         IN
         /\ priceCache' = cache
         /\ clock' = now
         /\ IF IsFresh(cachedData, now, cacheTimeoutMs)
            THEN /\ lastCall' = [call EXCEPT !.pc = "returned",
                                             !.value = cachedData.price]
                 /\ lastOp' = [NoOp EXCEPT !.op = "hit"]
                 /\ UNCHANGED priceCalls
            ELSE /\ priceCalls' = Append(priceCalls, [call EXCEPT !.fetched = TRUE])
                 /\ lastOp' = [NoOp EXCEPT !.op = "fetching"]
                 /\ UNCHANGED lastCall
    /\ callsMade' = callsMade + 1
    /\ loadFailed' = FALSE
    /\ UNCHANGED <<cacheTimeoutMs, diskFile, procUp, diskFaults, constructions>>
    /\ UNCHANGED priceRest

\* The fetch of a call settles and the call runs to its end.
PriceFetchSettle ==
    /\ procUp
    /\ \E i \in PriceInFlight, outcome \in FetchOutcomes :
         LET call == priceCalls[i] IN
         IF outcome.kind = "ok" /\ HasKey(priceCache, call.tokenId)
         THEN LET cache == SetEntry(priceCache, call.tokenId,
                                    Entry(outcome.price, call.now)) IN
              \E w \in saveCacheToDisk(diskFile, cache, diskFaults < MaxDiskFaults) :
                /\ priceCache' = cache
                /\ diskFile' = w.file
                /\ procUp' = ~w.died
                /\ diskFaults' = IF w.error \/ w.died THEN diskFaults + 1 ELSE diskFaults
                /\ priceCalls' = IF w.died THEN <<>> ELSE RemoveAt(priceCalls, i)
                /\ lastCall' =
                       IF w.died THEN [call EXCEPT !.pc = "killed"]
                       ELSE [call EXCEPT !.pc = "returned", !.fetchOk = TRUE,
                                         !.value = outcome.price]
                /\ lastOp' = [NoOp EXCEPT !.op = IF w.died THEN "died" ELSE "fetched",
                                          !.wrote = ~w.error /\ ~w.died]
         ELSE LET r == OnFetchFailed(call.cachedData) IN
              /\ priceCalls' = RemoveAt(priceCalls, i)
              /\ lastCall' =
                     [call EXCEPT !.pc = IF r.threw THEN "thrown" ELSE "returned",
                                  !.value = r.value,
                                  !.storedAtFailure = GetEntry(priceCache, call.tokenId)]
              /\ lastOp' = [NoOp EXCEPT !.op = "failed"]
              /\ UNCHANGED <<priceCache, diskFile, procUp, diskFaults>>
    /\ UNCHANGED <<cacheTimeoutMs, clock, callsMade, constructions, loadFailed>>
    /\ UNCHANGED priceRest

\* setCacheTimeout(minutes)
SetCacheTimeout ==
    /\ procUp
    /\ PriceInFlight = {}
    /\ \E minutes \in TimeoutMinutes :
         /\ cacheTimeoutMs # minutes * 60 * 1000
         /\ cacheTimeoutMs' = minutes * 60 * 1000
    /\ UNCHANGED <<priceCache, diskFile, clock, procUp, priceCalls, callsMade,
                   lastCall, lastOp, diskFaults, constructions, loadFailed>>
    /\ UNCHANGED priceRest

\* The process has ended (or died in a write) and the next one loads the
\* module: new CoinGeckoService().
Construct ==
    /\ PriceInFlight = {}
    /\ constructions < MaxConstructions
    /\ LET l == loadCacheFromDisk(diskFile) IN
         /\ priceCache' = l.cache
         /\ procUp' = ~l.threw
         /\ lastOp' = [NoOp EXCEPT !.op = "construct"]
    /\ loadFailed' = (diskFile.exists /\ ~JSON_parse(diskFile.content).ok)
    /\ cacheTimeoutMs' = CacheTimeoutMinutes * 60 * 1000
    /\ constructions' = constructions + 1
    /\ UNCHANGED <<diskFile, clock, priceCalls, callsMade, lastCall,
                   diskFaults>>
    /\ UNCHANGED priceRest

\* ------------------------------------------------------------------------
\* Part 4: amount formatting (web3/numberUtils.ts)
\* ------------------------------------------------------------------------

\* A string is the sequence of its characters.
Digits == <<"0", "1", "2", "3", "4", "5", "6", "7", "8", "9">>
DigitChar(n) == Digits[n + 1]
DigitValue(c) == (CHOOSE i \in 1..10 : Digits[i] = c) - 1
Zeros(n) == [i \in 1..n |-> "0"]

NonZeroPlaces(str) == {i \in 1..Len(str) : str[i] # "0"}

StripLeadingZeros(str) ==
    IF NonZeroPlaces(str) = {} THEN <<>>
    ELSE SubSeq(str, CHOOSE i \in NonZeroPlaces(str) :
                        \A j \in NonZeroPlaces(str) : i <= j, Len(str))

\* fraction.replace(/(0+)$/, '')
StripTrailingZeros(str) ==
    IF NonZeroPlaces(str) = {} THEN <<>>
    ELSE SubSeq(str, 1, CHOOSE i \in NonZeroPlaces(str) :
                           \A j \in NonZeroPlaces(str) : i >= j)

\* BigInt(amount).toString(): the decimal digits without leading zeros.
BigIntToString(amount) ==
    IF StripLeadingZeros(amount) = <<>> THEN <<"0">> ELSE StripLeadingZeros(amount)

\* display.padStart(decimals, '0')
PadStart(str, n) == IF Len(str) >= n THEN str ELSE Zeros(n - Len(str)) \o str

\* formatUnits that keeps the digits as they are when there are fewer of
\* them than decimals.
formatUnits_NoPad(value, decimals) ==
    LET display == BigIntToString(value)
        cut == IF Len(display) >= decimals THEN Len(display) - decimals ELSE 0
        integer == SubSeq(display, 1, cut)
        fraction == StripTrailingZeros(SubSeq(display, cut + 1, Len(display)))
    IN (IF integer = <<>> THEN <<"0">> ELSE integer)
       \o (IF fraction = <<>> THEN <<>> ELSE <<".">> \o fraction)

\* formatUnits(value, decimals) of viem for a value that is not negative.
formatUnits(value, decimals) ==
    LET display == PadStart(BigIntToString(value), decimals)
        integer == SubSeq(display, 1, Len(display) - decimals)
        fraction == StripTrailingZeros(
                        SubSeq(display, Len(display) - decimals + 1, Len(display)))
    IN (IF integer = <<>> THEN <<"0">> ELSE integer)
       \o (IF fraction = <<>> THEN <<>> ELSE <<".">> \o fraction)

\* formatTokenAmount(amount, decimals)
formatTokenAmount(amount, decimals) == formatUnits(amount, decimals)

\* 10^n as a string.
PowerOfTen(n) == <<"1">> \o Zeros(n)
Nines(n) == [i \in 1..n |-> "9"]

\* Raw amounts up to 10^30.
SampleAmounts ==
    {<<"0">>, <<"1">>, <<"1", "0">>, <<"5", "0", "5", "0">>,
     PowerOfTen(6), <<"2">> \o Zeros(6), <<"1", "2", "3", "4", "5", "6", "7">>,
     PowerOfTen(18), Nines(30), PowerOfTen(30)}
\* Token decimals (uint8).
SampleDecimals == {0, 1, 6, 18, 31}

SeqsUpTo(S, n) == UNION {[1..k -> S] : k \in 1..n}

\* A list of reward lines of one token.
InitFormat ==
    /\ fmtAmounts \in SeqsUpTo(SampleAmounts, MaxFormatLines)
    /\ fmtDecimals \in SampleDecimals
    /\ fmtFormatted = <<>>

\* No amount is being formatted.
FormatIdle ==
    /\ fmtAmounts = <<>>
    /\ fmtDecimals = 0
    /\ fmtFormatted = <<>>

\* formatTokenAmount(reward.amount, tokenInfo.decimals) for the next line.
FormatLine ==
    /\ Len(fmtFormatted) < Len(fmtAmounts)
    /\ fmtFormatted' = Append(fmtFormatted,
           formatTokenAmount(fmtAmounts[Len(fmtFormatted) + 1], fmtDecimals))
    /\ UNCHANGED <<fmtAmounts, fmtDecimals>>
    /\ UNCHANGED formatRest

\* a + b on bigints written as strings: place k counts from the right, and a
\* carry enters it when a lower place overflows and every place between
\* holds a nine.
PlaceValue(a, k) == IF k <= Len(a) THEN DigitValue(a[Len(a) + 1 - k]) ELSE 0
CarryInto(a, b, k) ==
    IF \E j \in 1..(k - 1) :
          /\ PlaceValue(a, j) + PlaceValue(b, j) >= 10
          /\ \A m \in (j + 1)..(k - 1) : PlaceValue(a, m) + PlaceValue(b, m) = 9
    THEN 1 ELSE 0
AddStrings(a, b) ==
    LET n == (IF Len(a) >= Len(b) THEN Len(a) ELSE Len(b)) + 1 IN
    BigIntToString([i \in 1..n |->
        DigitChar((PlaceValue(a, n + 1 - i) + PlaceValue(b, n + 1 - i)
                   + CarryInto(a, b, n + 1 - i)) % 10)])

\* ------------------------------------------------------------------------
\* Part 5: reward enrichment and totals (user/userRewards.ts)
\* ------------------------------------------------------------------------

\* getAddress(address): the checksummed spelling.
getAddress(address) == <<address[1], "checksum">>

\* '0x0000000000000000000000000000000000000000': no contract lives there.
ZeroAddress == Addr("ZERO", "checksum")

\* Hexadecimal text.
HexDigits == <<"0", "1", "2", "3", "4", "5", "6", "7", "8", "9",
               "a", "b", "c", "d", "e", "f">>
HexValue(c) == (CHOOSE i \in 1..16 : HexDigits[i] = c) - 1
HexOfByte(b) == <<HexDigits[(b \div 16) + 1], HexDigits[(b % 16) + 1]>>

\* reward.token = Bytes.fromI32(i), as the index serves it: '0x' and the four
\* bytes of i, lowest first.
Bytes_fromI32(i) ==
    <<"0", "x">> \o HexOfByte(i % 256) \o HexOfByte((i \div 256) % 256)
    \o HexOfByte((i \div 65536) % 256) \o HexOfByte((i \div 16777216) % 256)

\* reward.token.startsWith('0x')
StartsWith0x(str) == Len(str) >= 2 /\ str[1] = "0" /\ str[2] = "x"

\* parseInt(reward.token.slice(2, 4), 16)
ParseIndex(str) == HexValue(str[3]) * 16 + HexValue(str[4])

\* let tokenIndex = 0; if (reward.token.startsWith('0x')) tokenIndex = ...
TokenIndex(token) == IF StartsWith0x(token) THEN ParseIndex(token) ELSE 0

\* The bounds check that lets the index one past the end through to the
\* first token.
TokenAddressAt_Wrapping(rewardTokenAddresses, tokenIndex) ==
    IF rewardTokenAddresses = <<>> THEN ZeroAddress
    ELSE rewardTokenAddresses[(tokenIndex % Len(rewardTokenAddresses)) + 1]

\* tokenIndex < rewardTokenAddresses.length ? rewardTokenAddresses[tokenIndex]
\*                                          : '0x0000...0000'
TokenAddressAt(rewardTokenAddresses, tokenIndex) ==
    IF tokenIndex < Len(rewardTokenAddresses)
    THEN rewardTokenAddresses[tokenIndex + 1] ELSE ZeroAddress

\* getTokenInfo that lets the failure of its reads escape.
getTokenInfoAwaited_Rethrow(cache, address, failing) ==
    IF address = Undefined
      THEN [threw |-> FALSE, cache |-> cache, info |-> Null]
    ELSE IF CacheHas(cache, CacheKey(address))
      THEN [threw |-> FALSE, cache |-> cache, info |-> cache[CacheKey(address)]]
    ELSE IF address[1] \in failing \cup {"ZERO"}
      THEN [threw |-> TRUE, cache |-> cache, info |-> Null]
    ELSE [threw |-> FALSE,
          cache |-> CacheSet(cache, CacheKey(address), TokenInfo(address)),
          info |-> TokenInfo(address)]

\* await getTokenInfo(address) when no other call runs meanwhile: the null
\* of a falsy address, the cache hit, or the reads, their result cached.
getTokenInfoAwaited(cache, address, failing) ==
    IF address = Undefined
      THEN [threw |-> FALSE, cache |-> cache, info |-> Null]
    ELSE IF CacheHas(cache, CacheKey(address))
      THEN [threw |-> FALSE, cache |-> cache, info |-> cache[CacheKey(address)]]
    ELSE LET info == getTokenInfo_Settle(address,
                                         address[1] \notin failing \cup {"ZERO"})
         IN [threw |-> FALSE, cache |-> CacheSet(cache, CacheKey(address), info),
             info |-> info]

\* The getTokenInfo calls of getMarketInfo from stage k on, awaited one
\* after the other.
RECURSIVE RunStages(_, _, _, _)
RunStages(task, k, cache, failing) ==
    IF k = 0 THEN [threw |-> FALSE, cache |-> cache, task |-> task]
    ELSE LET r == getTokenInfoAwaited(cache, StageAddress(task, k), failing) IN
         IF r.threw THEN [threw |-> TRUE, cache |-> r.cache, task |-> task]
         ELSE RunStages(StoreStage(task, k, r.info), NextStage(task, k),
                        r.cache, failing)

\* await getMarketInfo(address) when no other call runs meanwhile.
getMarketInfoAwaited(tc, mc, address, reads, failing) ==
    IF CacheHas(mc, CacheKey(address))
      THEN [tokenCache |-> tc, marketCache |-> mc, info |-> mc[CacheKey(address)]]
    ELSE LET task == [NewTask("getMarketInfo", address) EXCEPT
                        !.rewardTokenAddresses = ReadOrEmpty(reads[1], RewardTokensOf(address)),
                        !.marketTokens = ReadOrEmpty(reads[2], readTokens)]
             r == RunStages(task, 1, tc, failing)
             info == IF r.threw THEN MarketInfo(address, Null, Null, Null, <<>>)
                     ELSE BuildMarketInfo(r.task)
         IN [tokenCache |-> r.cache,
             marketCache |-> CacheSet(mc, CacheKey(address), info),
             info |-> info]

\* One reward of a fetched event: the reference the index serves for the
\* position i of rewardsOut, and the amount.
RewardLine(i, amount) == [token |-> Bytes_fromI32(i), amount |-> amount]

\* The rewards of the events the index may serve.
SampleRewards ==
    {<<RewardLine(0, PowerOfTen(6)), RewardLine(1, <<"2">> \o Zeros(6))>>,
     <<RewardLine(1, <<"5", "0", "5", "0">>)>>,
     <<RewardLine(2, <<"7">>)>>,
     <<RewardLine(256, <<"3">>)>>,
     <<>>}

\* Which of getRewardTokens and readTokens can be read.
MarketReadOutcomes == {<<TRUE, TRUE>>, <<FALSE, TRUE>>, <<FALSE, FALSE>>}
\* The token contracts whose reads fail.
FailingTokenSets == {{}, {"RB"}, {"RA", "RB"}}

NoTotals == <<>>

\* getUserRewardRedemptions after its pager has fetched the events.
InitEnrich ==
    /\ \E rewards \in SeqsUpTo(SampleRewards, MaxEvents) :
          enrEvents = [i \in 1..Len(rewards) |-> [id |-> i, rewards |-> rewards[i]]]
    /\ failingTokens \in FailingTokenSets
    /\ marketReads \in MarketReadOutcomes
    /\ enrPc = "event"
    /\ eventIdx = 1
    /\ lineIdx = 0
    /\ curMarket = NoMarketInfo
    /\ enrichedRewards = <<>>
    /\ enrichedEvents = <<>>
    /\ totals = NoTotals

\* No user report runs.
EnrichIdle ==
    /\ enrEvents = <<>>
    /\ failingTokens = {}
    /\ marketReads = <<TRUE, TRUE>>
    /\ enrPc = "idle"
    /\ eventIdx = 0
    /\ lineIdx = 0
    /\ curMarket = NoMarketInfo
    /\ enrichedRewards = <<>>
    /\ enrichedEvents = <<>>
    /\ totals = NoTotals

\* enrichedEvents.push({ id, ..., market, rewards }) and the next turn of
\* the outer loop, or the return after the last event.
PushEvent(rewards, market) ==
    /\ enrichedEvents' = Append(enrichedEvents,
           [id |-> enrEvents[eventIdx].id, market |-> market, rewards |-> rewards])
    /\ eventIdx' = eventIdx + 1
    /\ lineIdx' = 0
    /\ enrichedRewards' = <<>>
    /\ enrPc' = IF eventIdx = Len(enrEvents) THEN "returned" ELSE "event"

\* for (const event of allRedeemEvents) { marketInfo = await getMarketInfo(
\* getAddress(event.market.address)); ...
EnrichEventBegin ==
    /\ enrPc = "event"
    /\ LET r == getMarketInfoAwaited(tokenCache, marketCache,
                                     getAddress(Addr(MarketId, "lower")),
                                     marketReads, failingTokens)
       IN /\ tokenCache' = r.tokenCache
          /\ marketCache' = r.marketCache
          /\ curMarket' = r.info
          /\ IF enrEvents[eventIdx].rewards = <<>>
             THEN PushEvent(<<>>, r.info)
             ELSE /\ enrPc' = "line"
                  /\ lineIdx' = 1
                  /\ enrichedRewards' = <<>>
                  /\ UNCHANGED <<enrichedEvents, eventIdx>>
    /\ UNCHANGED <<enrEvents, failingTokens, marketReads, totals>>
    /\ UNCHANGED enrichRest

\* for (const reward of event.rewards) { ... } for one reward, and the push
\* of the event after the last one.
EnrichLine ==
    /\ enrPc = "line"
    /\ LET reward == enrEvents[eventIdx].rewards[lineIdx]
           rewardTokenAddresses ==
               [i \in 1..Len(curMarket.rewardTokens) |-> curMarket.rewardTokens[i].address]
           tokenAddress == TokenAddressAt(rewardTokenAddresses, TokenIndex(reward.token))
           r == getTokenInfoAwaited(tokenCache, getAddress(tokenAddress), failingTokens)
           rewards == IF r.info # Null
                      THEN Append(enrichedRewards,
                               [token |-> r.info, amount |-> reward.amount,
                                amountFormatted |->
                                    formatTokenAmount(reward.amount, r.info.decimals)])
                      ELSE enrichedRewards
       IN IF r.threw
          THEN /\ enrPc' = "failed"
               /\ UNCHANGED <<tokenCache, eventIdx, lineIdx, enrichedRewards,
                              enrichedEvents>>
          ELSE /\ tokenCache' = r.cache
               /\ IF lineIdx = Len(enrEvents[eventIdx].rewards)
                  THEN PushEvent(rewards, curMarket)
                  ELSE /\ lineIdx' = lineIdx + 1
                       /\ enrichedRewards' = rewards
                       /\ UNCHANGED <<enrPc, eventIdx, enrichedEvents>>
    /\ UNCHANGED <<enrEvents, failingTokens, marketReads, curMarket, totals,
                   marketCache>>
    /\ UNCHANGED enrichRest

\* totals[tokenAddress].amount = BigInt(reward.amount): the earlier lines
\* of the token are lost.
AddToTotals_Overwrite(groups, reward) ==
    IF \E g \in 1..Len(groups) : groups[g].address = reward.token.address
    THEN LET g == CHOOSE g \in 1..Len(groups) : groups[g].address = reward.token.address
         IN [groups EXCEPT ![g].amount = BigIntToString(reward.amount)]
    ELSE Append(groups, [address |-> reward.token.address,
                         amount |-> BigIntToString(reward.amount),
                         decimals |-> reward.token.decimals,
                         symbol |-> reward.token.symbol])

\* if (!totals[tokenAddress]) totals[tokenAddress] = { amount: BigInt(0),
\* decimals, symbol }; totals[tokenAddress].amount += BigInt(reward.amount)
AddToTotals(groups, reward) ==
    IF \E g \in 1..Len(groups) : groups[g].address = reward.token.address
    THEN LET g == CHOOSE g \in 1..Len(groups) : groups[g].address = reward.token.address
         IN [groups EXCEPT ![g].amount = AddStrings(@, reward.amount)]
    ELSE Append(groups, [address |-> reward.token.address,
                         amount |-> AddStrings(<<"0">>, reward.amount),
                         decimals |-> reward.token.decimals,
                         symbol |-> reward.token.symbol])

\* The rewards of all redemptions, in order.
RECURSIVE AllRewards(_)
AllRewards(redemptions) ==
    IF redemptions = <<>> THEN <<>>
    ELSE Head(redemptions).rewards \o AllRewards(Tail(redemptions))

RECURSIVE Aggregate(_, _)
Aggregate(groups, rewards) ==
    IF rewards = <<>> THEN groups
    ELSE Aggregate(AddToTotals(groups, Head(rewards)), Tail(rewards))

\* getTotalRewardsValue(userRedemptions): the totals by token address, each
\* formatted with the decimals of the token.
getTotalRewardsValue(userRedemptions) ==
    LET groups == Aggregate(<<>>, AllRewards(userRedemptions)) IN
    [g \in 1..Len(groups) |->
        [address |-> groups[g].address,
         total |-> formatTokenAmount(groups[g].amount, groups[g].decimals),
         symbol |-> groups[g].symbol]]

\* const totals = await getTotalRewardsValue(redemptions)
TotalRewards ==
    /\ enrPc = "returned"
    /\ totals' = getTotalRewardsValue(enrichedEvents)
    /\ enrPc' = "totalled"
    /\ UNCHANGED <<enrEvents, failingTokens, marketReads, eventIdx, lineIdx,
                   curMarket, enrichedRewards, enrichedEvents>>
    /\ UNCHANGED <<tokenCache, marketCache>>
    /\ UNCHANGED enrichRest

\* ------------------------------------------------------------------------
\* Part 6: the position APR (user/positionAPR.ts)
\* ------------------------------------------------------------------------

\* A string of digits as a number.
RECURSIVE StringToInt(_)
StringToInt(str) ==
    IF str = <<>> THEN 0
    ELSE 10 * StringToInt(SubSeq(str, 1, Len(str) - 1)) + DigitValue(str[Len(str)])

\* CoinGeckoTokenIdsMap[address.toLowerCase()] || null: the two reward
\* tokens of the market are the PENDLE and the SONIC token of the table.
NoFeedId == "null"
\* A lookup that prices every unlisted token as PENDLE.
getCoinGeckoIdFromAddress_Default(address) ==
    IF toLowerCase(address) = Addr("RB", "lower") THEN "sonic-token"
    ELSE "pendle"

getCoinGeckoIdFromAddress(address) ==
    IF toLowerCase(address) = Addr("RA", "lower") THEN "pendle"
    ELSE IF toLowerCase(address) = Addr("RB", "lower") THEN "sonic-token"
    ELSE NoFeedId

\* The feed the price of a reward token is asked from.
FeedIdOf(symbol, tokenAddress) ==
    IF symbol = "PENDLE" THEN "pendle"
    ELSE IF symbol = "SONIC" THEN "sonic-token"
    ELSE getCoinGeckoIdFromAddress(tokenAddress)

\* Dollar values are held in cents.
CentsPerDollar == 100

PointAt(str) ==
    IF \E i \in 1..Len(str) : str[i] = "."
    THEN CHOOSE i \in 1..Len(str) : str[i] = "."
    ELSE Len(str) + 1

\* new Decimal(formattedAmount).mul(tokenPrice).toNumber(), for an amount
\* of at most two decimal places and a price in whole dollars.
ValueUSD(formattedAmount, tokenPrice) ==
    LET p == PointAt(formattedAmount)
        integer == SubSeq(formattedAmount, 1, p - 1)
        fraction == SubSeq(SubSeq(formattedAmount, p + 1, Len(formattedAmount))
                           \o <<"0", "0">>, 1, 2)
    IN (StringToInt(integer) * CentsPerDollar + StringToInt(fraction)) * tokenPrice

\* Number(x.toFixed(2)) of the quotient n / d, in hundredths.
ToFixed2(n, d) == (2 * n * 100 + d) \div (2 * d)

\* calculateAPR that also rejects rewards of zero.
calculateAPR_ZeroRewardsThrow(depositedTotalUSD, totalRewardsUSD, daysElapsed) ==
    IF depositedTotalUSD <= 0 \/ totalRewardsUSD <= 0
      THEN [threw |-> TRUE, apr |-> 0]
    ELSE IF daysElapsed <= 0
      THEN [threw |-> TRUE, apr |-> 0]
    ELSE [threw |-> FALSE,
          apr |-> ToFixed2(totalRewardsUSD * 365,
                           depositedTotalUSD * daysElapsed)]

\* calculateAPR(depositedTotalUSD, totalRewardsUSD, daysElapsed): the rewards
\* come in cents, the APR goes out in hundredths of a percent.
calculateAPR(depositedTotalUSD, totalRewardsUSD, daysElapsed) ==
    IF depositedTotalUSD <= 0 \/ totalRewardsUSD < 0
      THEN [threw |-> TRUE, apr |-> 0]
    ELSE IF daysElapsed <= 0
      THEN [threw |-> TRUE, apr |-> 0]
    ELSE [threw |-> FALSE,
          apr |-> ToFixed2(totalRewardsUSD * 365,
                           depositedTotalUSD * daysElapsed)]

\* What a balanceOf read gives.
BalanceReads ==
    {[ok |-> FALSE, value |-> 0]} \cup {[ok |-> TRUE, value |-> v] : v \in {0, 5}}

NoPosition == [type |-> "NONE", balance |-> 0]

\* getUserPosition: the LP balance, else the PT balance, and a position of
\* type NONE with balance 0 when a read fails.
getUserPosition(lp, tokensOk, pt) ==
    IF ~lp.ok THEN NoPosition
    ELSE IF lp.value > 0 THEN [type |-> "LP", balance |-> lp.value]
    ELSE IF ~tokensOk \/ ~pt.ok THEN NoPosition
    ELSE [type |-> "PT", balance |-> pt.value]

\* The deposit in dollars and the days between depositDate and now.
AprDeposits == {0, 100}
AprDays == {0, 73}

\* The raw amounts a pendingRewards or userReward read gives for a token:
\* nothing, two tokens, half a token.
PendingAmounts(decimals) ==
    {<<"0">>, <<"2">> \o Zeros(decimals), <<"5">> \o Zeros(decimals - 1)}

\* The two probes for the accrued reward of a token.
PendingReads(decimals) ==
    {[ok |-> FALSE, amount |-> <<"0">>]}
    \cup {[ok |-> TRUE, amount |-> a] : a \in PendingAmounts(decimals)}

\* A contract read or a price fetch that was issued.
Issued(k, what) == [kind |-> k, what |-> what]

\* The markets the APR is asked for.
AprMarkets == {Addr(MarketId, "checksum"), Addr(OtherMarketId, "checksum")}

NoAprToken == [symbol |-> "", decimals |-> 0, price |-> 0]
NoAprResult == [kind |-> "none", apr |-> 0, rewardValue |-> 0, message |-> ""]
AprError(message) == [NoAprResult EXCEPT !.kind = "error", !.message = message]

\* calculatePendleAPR(market, user, depositAmount, depositDate) is called.
InitApr ==
    /\ aprPc = "start"
    /\ aprInput \in [depositAmount : AprDeposits, dateValid : BOOLEAN,
                     daysElapsed : AprDays]
    /\ aprMarket \in AprMarkets
    /\ aprIssued = {}
    /\ aprPosition = NoPosition
    /\ aprTokens = <<>>
    /\ aprIdx = 0
    /\ aprToken = NoAprToken
    /\ aprRewards = <<>>
    /\ aprTotalUSD = 0
    /\ aprFailures = {}
    /\ aprResult = NoAprResult

\* No position APR is computed.
AprIdle ==
    /\ aprPc = "idle"
    /\ aprInput = [depositAmount |-> 0, dateValid |-> FALSE, daysElapsed |-> 0]
    /\ aprMarket = Undefined
    /\ aprIssued = {}
    /\ aprPosition = NoPosition
    /\ aprTokens = <<>>
    /\ aprIdx = 0
    /\ aprToken = NoAprToken
    /\ aprRewards = <<>>
    /\ aprTotalUSD = 0
    /\ aprFailures = {}
    /\ aprResult = NoAprResult

\* The price service of the script: constructed at module load from no
\* cache file or from the file an earlier run left.
EarlierRunCache == SetEntry(EnsureInner(<<>>, "pendle"), "pendle", Entry(1, 0))
InitAprPrice ==
    /\ priceCache \in {<<>>, EarlierRunCache}
    /\ diskFile = (IF priceCache = <<>> THEN NoFile
                   ELSE File(JSON_stringify(priceCache)))
    /\ cacheTimeoutMs = CacheTimeoutMinutes * 60 * 1000
    /\ clock = 0
    /\ procUp = TRUE
    /\ priceCalls = <<>>
    /\ callsMade = 0
    /\ lastCall = NoPriceCall
    /\ lastOp = NoOp
    /\ diskFaults = 0
    /\ constructions = 0
    /\ loadFailed = FALSE

\* The validation of the inputs and await getMarketInfo(marketAddress).
AprBegin ==
    /\ aprPc = "start"
    /\ IF ~aprInput.dateValid
       THEN /\ aprResult' = AprError("Invalid deposit date format")
            /\ aprPc' = "done"
            /\ UNCHANGED <<tokenCache, marketCache, aprIssued>>
       ELSE IF aprInput.depositAmount <= 0
       THEN /\ aprResult' = AprError("Deposit amount must be a positive number")
            /\ aprPc' = "done"
            /\ UNCHANGED <<tokenCache, marketCache, aprIssued>>
       ELSE \E reads \in MarketReadOutcomes :
              LET r == getMarketInfoAwaited(tokenCache, marketCache,
                                            aprMarket, reads, {})
              IN /\ tokenCache' = r.tokenCache
                 /\ marketCache' = r.marketCache
                 /\ aprIssued' =
                        IF CacheHas(marketCache, CacheKey(aprMarket)) THEN aprIssued
                        ELSE aprIssued \cup {Issued("read", "getMarketInfo")}
                 /\ aprPc' = "position"
                 /\ UNCHANGED aprResult
    /\ UNCHANGED <<aprInput, aprPosition, aprTokens, aprIdx, aprToken,
                   aprRewards, aprTotalUSD, aprFailures, aprMarket>>
    /\ UNCHANGED priceVars
    /\ UNCHANGED aprRest

\* position = await getUserPosition(...); if (position.balance === 0n) throw
AprPosition ==
    /\ aprPc = "position"
    /\ \E lp \in BalanceReads, tokensOk \in BOOLEAN, pt \in BalanceReads :
         LET position == getUserPosition(lp, tokensOk, pt) IN
         /\ aprPosition' = position
         /\ IF position.balance = 0
            THEN /\ aprResult' = AprError("User has no LP tokens in this market")
                 /\ aprPc' = "done"
            ELSE /\ aprPc' = "rewardTokens"
                 /\ UNCHANGED aprResult
    /\ aprIssued' = aprIssued \cup {Issued("read", "balanceOf")}
    /\ UNCHANGED <<aprInput, aprTokens, aprIdx, aprToken, aprRewards,
                   aprTotalUSD, aprFailures, aprMarket>>
    /\ UNCHANGED <<tokenCache, marketCache>>
    /\ UNCHANGED priceVars
    /\ UNCHANGED aprRest

\* The outer catch of getPendingRewards:
\* return { rewards: [], totalRewardsUSD: 0 }
PendingRewardsCaught(what) ==
    /\ aprRewards' = <<>>
    /\ aprTotalUSD' = 0
    /\ aprFailures' = aprFailures \cup {what}
    /\ aprPc' = "compute"

\* getPendingRewards: the getRewardTokens read.
AprRewardTokens ==
    /\ aprPc = "rewardTokens"
    /\ \E ok \in BOOLEAN :
         IF ok
         THEN /\ aprTokens' = RewardTokensOf(aprMarket)
              /\ aprIdx' = 1
              /\ aprPc' = IF RewardTokensOf(aprMarket) = <<>> THEN "compute"
                          ELSE "token"
              /\ UNCHANGED <<aprRewards, aprTotalUSD, aprFailures>>
         ELSE /\ PendingRewardsCaught("getRewardTokens")
              /\ UNCHANGED <<aprTokens, aprIdx>>
    /\ aprIssued' = aprIssued \cup {Issued("read", "getRewardTokens")}
    /\ UNCHANGED <<aprInput, aprPosition, aprToken, aprMarket, aprResult>>
    /\ UNCHANGED <<tokenCache, marketCache>>
    /\ UNCHANGED priceVars
    /\ UNCHANGED aprRest

\* The next turn of the loop over the reward tokens, or its end.
ContinueLoop ==
    /\ aprIdx' = aprIdx + 1
    /\ aprPc' = IF aprIdx = Len(aprTokens) THEN "compute" ELSE "token"

\* One reward token up to the await of its price: the symbol and decimals
\* reads (the token is skipped when they fail) and getTokenPrice up to its
\* fetch.
AprTokenBegin ==
    /\ aprPc = "token"
    /\ \E readsOk \in BOOLEAN, elapsed \in Elapsed :
         LET tokenAddress == aprTokens[aprIdx]
             symbol == ERC20(tokenAddress[1]).symbol
             decimals == ERC20(tokenAddress[1]).decimals
             tokenId == FeedIdOf(symbol, tokenAddress)
             cache == EnsureInner(priceCache, tokenId)
             cachedData == GetEntry(cache, tokenId)
             now == clock + elapsed
             call == NewPriceCall(tokenId, cachedData, now, cacheTimeoutMs,
                                  GetEntry(priceCache, tokenId))
             identity == Issued("read", tokenAddress[1])
         IN
         IF ~readsOk
         THEN /\ ContinueLoop
              /\ aprFailures' = aprFailures \cup {"identity"}
              /\ aprIssued' = aprIssued \cup {identity}
              /\ UNCHANGED <<aprToken, priceVars>>
         ELSE IF tokenId = NoFeedId
         THEN /\ aprToken' = [symbol |-> symbol, decimals |-> decimals, price |-> 0]
              /\ aprPc' = "pending"
              /\ aprIssued' = aprIssued \cup {identity}
              /\ UNCHANGED <<aprIdx, aprFailures, priceVars>>
         ELSE /\ priceCache' = cache
              /\ clock' = now
              /\ callsMade' = callsMade + 1
              /\ loadFailed' = FALSE
              /\ UNCHANGED <<aprIdx, aprFailures, cacheTimeoutMs, diskFile, procUp,
                             diskFaults, constructions>>
              /\ IF IsFresh(cachedData, now, cacheTimeoutMs)
                 THEN /\ aprToken' = [symbol |-> symbol, decimals |-> decimals,
                                      price |-> cachedData.price]
                      /\ aprPc' = "pending"
                      /\ lastCall' = [call EXCEPT !.pc = "returned",
                                                  !.value = cachedData.price]
                      /\ lastOp' = [NoOp EXCEPT !.op = "hit"]
                      /\ aprIssued' = aprIssued \cup {identity}
                      /\ UNCHANGED priceCalls
                 ELSE /\ aprToken' = [symbol |-> symbol, decimals |-> decimals,
                                      price |-> 0]
                      /\ aprPc' = "price"
                      /\ aprIssued' = aprIssued
                             \cup {identity, Issued("fetch", tokenAddress[1])}
                      /\ priceCalls' = Append(priceCalls, [call EXCEPT !.fetched = TRUE])
                      /\ lastOp' = [NoOp EXCEPT !.op = "fetching"]
                      /\ UNCHANGED lastCall
    /\ UNCHANGED <<aprInput, aprPosition, aprTokens, aprRewards, aprTotalUSD,
                   aprMarket, aprResult>>
    /\ UNCHANGED <<tokenCache, marketCache>>
    /\ UNCHANGED aprRest

\* The fetch of getTokenPrice settles: the price is stored and saved, or
\* the cached price is returned, or the error leaves getTokenPrice and is
\* caught by the outer catch of getPendingRewards.
AprPriceSettle ==
    /\ aprPc = "price"
    /\ \E outcome \in FetchOutcomes :
         LET call == priceCalls[1] IN
         IF outcome.kind = "ok"
         THEN LET cache == SetEntry(priceCache, call.tokenId,
                                    Entry(outcome.price, call.now)) IN
              \E w \in saveCacheToDisk(diskFile, cache, FALSE) :
                /\ priceCache' = cache
                /\ diskFile' = w.file
                /\ lastCall' = [call EXCEPT !.pc = "returned", !.fetchOk = TRUE,
                                            !.value = outcome.price]
                /\ lastOp' = [NoOp EXCEPT !.op = "fetched", !.wrote = TRUE]
                /\ aprToken' = [aprToken EXCEPT !.price = outcome.price]
                /\ aprPc' = "pending"
                /\ UNCHANGED <<aprRewards, aprTotalUSD, aprFailures>>
         ELSE LET r == OnFetchFailed(call.cachedData) IN
              /\ lastCall' =
                     [call EXCEPT !.pc = IF r.threw THEN "thrown" ELSE "returned",
                                  !.value = r.value,
                                  !.storedAtFailure = GetEntry(priceCache, call.tokenId)]
              /\ lastOp' = [NoOp EXCEPT !.op = "failed"]
              /\ UNCHANGED <<priceCache, diskFile>>
              /\ IF r.threw
                 THEN /\ PendingRewardsCaught("price")
                      /\ UNCHANGED aprToken
                 ELSE /\ aprToken' = [aprToken EXCEPT !.price = r.value]
                      /\ aprPc' = "pending"
                      /\ UNCHANGED <<aprRewards, aprTotalUSD, aprFailures>>
    /\ priceCalls' = <<>>
    /\ UNCHANGED <<cacheTimeoutMs, clock, procUp, callsMade, diskFaults,
                   constructions, loadFailed>>
    /\ UNCHANGED <<aprInput, aprPosition, aprTokens, aprIdx, aprMarket,
                   aprIssued, aprResult>>
    /\ UNCHANGED <<tokenCache, marketCache>>
    /\ UNCHANGED aprRest

\* rewards.push({ token, symbol, amount, formattedAmount, decimals, price,
\* valueUSD })
Reward(tokenAddress, token, amount) ==
    LET formattedAmount == formatUnits(amount, token.decimals)
        positive == StripLeadingZeros(amount) # <<>>
    IN [token |-> tokenAddress, symbol |-> token.symbol,
        amount |-> IF positive THEN amount ELSE <<"0">>,
        formattedAmount |-> IF positive THEN formattedAmount ELSE <<"0">>,
        decimals |-> token.decimals, price |-> token.price,
        valueUSD |-> IF positive THEN ValueUSD(formattedAmount, token.price) ELSE 0]

\* The accrued reward of the token: the pendingRewards read, the userReward
\* read when that one fails, and a reward of zero when both fail.
AprPending ==
    /\ aprPc = "pending"
    /\ \E pendingReward \in PendingReads(aprToken.decimals),
          userReward \in PendingReads(aprToken.decimals) :
         LET amount == IF pendingReward.ok THEN pendingReward.amount
                       ELSE IF userReward.ok THEN userReward.amount
                       ELSE <<"0">>
             reward == Reward(aprTokens[aprIdx], aprToken, amount)
         IN /\ aprRewards' = Append(aprRewards, reward)
            /\ aprTotalUSD' = aprTotalUSD + reward.valueUSD
            /\ aprFailures' = IF ~pendingReward.ok /\ ~userReward.ok
                              THEN aprFailures \cup {"accrued"} ELSE aprFailures
    /\ ContinueLoop
    /\ aprIssued' = aprIssued \cup {Issued("read", "accrued")}
    /\ UNCHANGED <<aprInput, aprPosition, aprTokens, aprToken, aprMarket,
                   aprResult>>
    /\ UNCHANGED <<tokenCache, marketCache>>
    /\ UNCHANGED priceVars
    /\ UNCHANGED aprRest

\* daysElapsed, calculateAPR and the portfolio item, or the error rethrown.
AprCompute ==
    /\ aprPc = "compute"
    /\ LET r == calculateAPR(aprInput.depositAmount, aprTotalUSD,
                             aprInput.daysElapsed)
       IN aprResult' = IF r.threw
                       THEN AprError("End date must be after the pool launch date.")
                       ELSE [NoAprResult EXCEPT !.kind = "apr", !.apr = r.apr,
                                                !.rewardValue = aprTotalUSD]
    /\ aprPc' = "done"
    /\ UNCHANGED <<aprInput, aprPosition, aprTokens, aprIdx, aprToken,
                   aprRewards, aprTotalUSD, aprFailures, aprMarket, aprIssued>>
    /\ UNCHANGED <<tokenCache, marketCache>>
    /\ UNCHANGED priceVars
    /\ UNCHANGED aprRest

\* ------------------------------------------------------------------------
\* Part 7: calculateAPR on its own (web3/helper.ts)
\* ------------------------------------------------------------------------

\* The arguments calculateAPR is tried with: dollars, cents, days.
CalcDeposits == {0 - 100, 0, 100, 300}
CalcRewards == {0 - 1000, 0, 1, 333, 1000}
CalcDays == {0 - 1, 0, 7, 73, 365}

NoCalcResult == [called |-> FALSE, threw |-> FALSE, apr |-> 0]

InitCalc ==
    /\ calcArgs \in [depositedTotalUSD : CalcDeposits,
                     totalRewardsUSD : CalcRewards, daysElapsed : CalcDays]
    /\ calcResult = NoCalcResult

\* calculateAPR is not called on its own.
CalcIdle ==
    /\ calcArgs = [depositedTotalUSD |-> 0, totalRewardsUSD |-> 0, daysElapsed |-> 0]
    /\ calcResult = NoCalcResult

\* calculateAPR(depositedTotalUSD, totalRewardsUSD, daysElapsed)
CalcApply ==
    /\ ~calcResult.called
    /\ LET r == calculateAPR(calcArgs.depositedTotalUSD, calcArgs.totalRewardsUSD,
                             calcArgs.daysElapsed)
       IN calcResult' = [called |-> TRUE, threw |-> r.threw, apr |-> r.apr]
    /\ UNCHANGED calcArgs
    /\ UNCHANGED calcRest

\* ------------------------------------------------------------------------
\* Part 8: the report commands (the main functions)
\* ------------------------------------------------------------------------

Commands == {"marketRewards", "userRewards", "rewardUpdates",
             "currentRewardRate", "positionAPR", "ptRewards"}

\* main reads process.argv and exits with 1 when an argument is missing;
\* the reward updates report has its market address in the code.
TakesArgs(cmd) == cmd # "rewardUpdates"

\* main wraps its computation in try { } catch { console.error(...);
\* process.exit(1) }.
ExitsInCatch(cmd) == cmd \in {"positionAPR", "ptRewards"}

\* main ends with await exportToTsv(...).
Exports(cmd) == cmd \in {"marketRewards", "userRewards", "currentRewardRate",
                         "ptRewards"}

\* What the computation of a report throws, and what the export throws.
NoFailure == ""
ComputationErrors == {"HTTP error! status: 500", "GraphQL error", "contract read reverted",
                      "Failed to fetch price", "Invalid input"}
ExportErrors == {"EACCES", "ENOSPC"}

InitCmd ==
    /\ cmdName \in Commands
    /\ cmdArgs \in {a \in BOOLEAN : a \/ TakesArgs(cmdName)}
    /\ cmdPc = "start"
    /\ cmdFailure = NoFailure
    /\ cmdStderr = <<>>
    /\ cmdExit = 0

\* No report command runs.
CmdIdle ==
    /\ cmdName = ""
    /\ cmdArgs = FALSE
    /\ cmdPc = "idle"
    /\ cmdFailure = NoFailure
    /\ cmdStderr = <<>>
    /\ cmdExit = 0

\* if (!marketAddress) { console.error(...); process.exit(1) }
CmdStart ==
    /\ cmdPc = "start"
    /\ IF TakesArgs(cmdName) /\ ~cmdArgs
       THEN /\ cmdStderr' = Append(cmdStderr, "usage")
            /\ cmdExit' = 1
            /\ cmdPc' = "exited"
       ELSE /\ cmdPc' = "computing"
            /\ UNCHANGED <<cmdStderr, cmdExit>>
    /\ UNCHANGED <<cmdName, cmdArgs, cmdFailure>>
    /\ UNCHANGED cmdRest

\* The awaited computation of the report returns or throws; the PT report
\* exits with 0 when the computation returns null.
CmdCompute ==
    /\ cmdPc = "computing"
    /\ \E e \in ComputationErrors \cup {NoFailure} :
         /\ cmdFailure' = e
         /\ cmdPc' = IF e # NoFailure THEN "thrown"
                     ELSE IF Exports(cmdName) THEN "exporting" ELSE "exited"
    /\ UNCHANGED <<cmdName, cmdArgs, cmdStderr, cmdExit>>
    /\ UNCHANGED cmdRest

\* if (!result) { console.log(...); process.exit(0) }
CmdNoResult ==
    /\ cmdPc = "exporting"
    /\ cmdName = "ptRewards"
    /\ cmdPc' = "exited"
    /\ cmdExit' = 0
    /\ UNCHANGED <<cmdName, cmdArgs, cmdFailure, cmdStderr>>
    /\ UNCHANGED cmdRest

\* await exportToTsv(...): the file is written or the write throws.
CmdExport ==
    /\ cmdPc = "exporting"
    /\ \E e \in ExportErrors \cup {NoFailure} :
         /\ cmdFailure' = e
         /\ cmdPc' = IF e # NoFailure THEN "thrown" ELSE "exited"
    /\ UNCHANGED <<cmdName, cmdArgs, cmdStderr, cmdExit>>
    /\ UNCHANGED cmdRest

\* The error reaches the catch block of main, which prints it and calls
\* process.exit(1), or it rejects main, and main().catch(console.error)
\* prints it and the process ends on its own with status 0.
ExitStatusOf(cmd) == IF ExitsInCatch(cmd) THEN 1 ELSE 0

CmdHandle ==
    /\ cmdPc = "thrown"
    /\ cmdStderr' = Append(cmdStderr, cmdFailure)
    /\ cmdExit' = ExitStatusOf(cmdName)
    /\ cmdPc' = "exited"
    /\ UNCHANGED <<cmdName, cmdArgs, cmdFailure>>
    /\ UNCHANGED cmdRest

\* ------------------------------------------------------------------------
\* Part 9: the PT fixed yield (user/pendlePTRewards.ts)
\* ------------------------------------------------------------------------

\* A number is a fraction in lowest terms; times are counted in days.
RECURSIVE GCD(_, _)
GCD(a, b) == IF b = 0 THEN a ELSE GCD(b, a % b)
Frac(n, d) == [num |-> n \div GCD(n, d), den |-> d \div GCD(n, d)]
FracLess(a, b) == a.num * b.den < b.num * a.den
FracMul(a, b) == Frac(a.num * b.num, a.den * b.den)
FracDiv(a, b) == Frac(a.num * b.den, a.den * b.num)
FracSub(a, b) == Frac(a.num * b.den - b.num * a.den, a.den * b.den)
\* Math.min(a, b), Math.max(a, b)
MathMin(a, b) == IF FracLess(b, a) THEN b ELSE a
MathMax(a, b) == IF FracLess(a, b) THEN b ELSE a
One == Frac(1, 1)
Zero == Frac(0, 1)

\* (Math.exp(Number(lastLnImpliedRate) / 1e18) - 1) * 100 at the values of
\* lastLnImpliedRate the market is tried with: ln 1, ln 1.05, ln 1.5.
LnImpliedRates ==
    {[raw |-> <<"0">>, percentage |-> 0],
     [raw |-> <<"4", "8", "7", "9", "0", "1", "6", "4", "1", "6", "9", "4", "3", "2", "0", "0", "3">>,
      percentage |-> 5],
     [raw |-> <<"4", "0", "5", "4", "6", "5", "1", "0", "8", "1", "0", "8", "1", "6", "4", "3", "8", "2">>,
      percentage |-> 50]}
impliedRatePercentage(lastLnImpliedRate) ==
    (CHOOSE r \in LnImpliedRates : r.raw = lastLnImpliedRate).percentage

\* A price above par that grows with the time to maturity.
PTPrice_Premium(annualizedRate, daysToMaturity) ==
    IF daysToMaturity <= 0 THEN One
    ELSE Frac(36500 + annualizedRate * daysToMaturity, 36500)

\* ptPrice = 1.0 at or past maturity, else
\* 1.0 / (1.0 + (annualizedRate / 100) * (daysToMaturity / 365))
PTPrice(annualizedRate, daysToMaturity) ==
    IF daysToMaturity <= 0 THEN One
    ELSE Frac(36500, 36500 + annualizedRate * daysToMaturity)

\* Math.max(0.95, Math.min(0.99, price))
ClampPurchasePrice(price) == MathMax(Frac(95, 100), MathMin(Frac(99, 100), price))

\* Math.max(0, Number(expiry) - timestamp)
TimeToMaturity(expiry, timestamp) == IF expiry > timestamp THEN expiry - timestamp ELSE 0

\* Number(formatUnits(ptBalance, ptDecimals)) for a balance of at most two
\* decimal places.
NumberOfUnits(ptBalance, ptDecimals) == Frac(ValueUSD(formatUnits(ptBalance, ptDecimals), 1), 100)

NoPurchaseDate == 0 - 1
NoLocals == [expiry |-> 0, ptDecimals |-> 0, ptBalance |-> <<"0">>,
             lastLnImpliedRate |-> <<"0">>]
NoPtResult == [kind |-> "none", ptTokens |-> Zero, ptPrice |-> Zero,
               estimatedPurchasePrice |-> Zero, estimatedInitialValue |-> Zero,
               finite |-> TRUE, gain |-> Zero]

\* Steps 4 to the end of calculatePTFixedYieldOnChain: the prices, the
\* tokens, null when there are none, and the values of the result.
PTFixedYield(locals, depositAmount, purchaseDate, currentTime) ==
    LET daysToMaturity == TimeToMaturity(locals.expiry, currentTime)
        purchaseTimestamp == IF purchaseDate # NoPurchaseDate THEN purchaseDate
                             ELSE currentTime
        daysFromPurchaseToMaturity == TimeToMaturity(locals.expiry, purchaseTimestamp)
        annualizedRate == impliedRatePercentage(locals.lastLnImpliedRate)
        ptPrice == PTPrice(annualizedRate, daysToMaturity)
        currentPtTokens == NumberOfUnits(locals.ptBalance, locals.ptDecimals)
        estimatedPurchasePrice ==
            IF depositAmount > 0 /\ purchaseDate # NoPurchaseDate
            THEN ClampPurchasePrice(PTPrice(annualizedRate, daysFromPurchaseToMaturity))
            ELSE ptPrice
        ptTokens ==
            IF depositAmount > 0
            THEN FracDiv(Frac(depositAmount, 1), estimatedPurchasePrice)
            ELSE currentPtTokens
        valueAtMaturity == ptTokens
        estimatedInitialValue == FracMul(ptTokens, estimatedPurchasePrice)
    IN IF ~FracLess(Zero, ptTokens)
       THEN [NoPtResult EXCEPT !.kind = "null"]
       ELSE [kind |-> "result", ptTokens |-> ptTokens, ptPrice |-> ptPrice,
             estimatedPurchasePrice |-> estimatedPurchasePrice,
             estimatedInitialValue |-> estimatedInitialValue,
             finite |-> estimatedInitialValue.num # 0,
             gain |-> IF estimatedInitialValue.num = 0 THEN Zero
                      ELSE FracSub(FracDiv(valueAtMaturity, estimatedInitialValue), One)]

\* The market and the user the PT report is made for, and its arguments.
PtExpiries == {900, 1000, 1073, 1365}
PtBalances == {<<"0">>, <<"2">> \o Zeros(18)}
PtDeposits == {0, 100}
PtPurchaseDates == {NoPurchaseDate, 800, 990, 1100}
PtCurrentTimes == {1000}

InitPt ==
    /\ ptChain \in [expiry : PtExpiries, ptBalance : PtBalances,
                    lastLnImpliedRate : {r.raw : r \in LnImpliedRates}]
    /\ ptInput \in [depositAmount : PtDeposits, purchaseDate : PtPurchaseDates]
    /\ ptNow \in PtCurrentTimes
    /\ ptPc = "market"
    /\ ptLocals = NoLocals
    /\ ptResult = NoPtResult

\* No PT report is made.
PtIdle ==
    /\ ptChain = [expiry |-> 0, ptBalance |-> <<"0">>, lastLnImpliedRate |-> <<"0">>]
    /\ ptInput = [depositAmount |-> 0, purchaseDate |-> NoPurchaseDate]
    /\ ptNow = 0
    /\ ptPc = "idle"
    /\ ptLocals = NoLocals
    /\ ptResult = NoPtResult

\* catch (error) { console.error(...); throw error }
PtThrow ==
    /\ ptResult' = [NoPtResult EXCEPT !.kind = "error"]
    /\ ptPc' = "done"
    /\ UNCHANGED ptLocals

\* Step 1: the readTokens and expiry reads.
PtReadMarket ==
    /\ ptPc = "market"
    /\ \E ok \in BOOLEAN :
         IF ok THEN /\ ptLocals' = [ptLocals EXCEPT !.expiry = ptChain.expiry]
                    /\ ptPc' = "token"
                    /\ UNCHANGED ptResult
         ELSE PtThrow
    /\ UNCHANGED <<ptChain, ptInput, ptNow>>
    /\ UNCHANGED ptRest

\* Step 2: the decimals, symbol and balanceOf reads of the PT.
PtReadToken ==
    /\ ptPc = "token"
    /\ \E ok \in BOOLEAN :
         IF ok THEN /\ ptLocals' = [ptLocals EXCEPT !.ptDecimals = ERC20("PT").decimals,
                                                    !.ptBalance = ptChain.ptBalance]
                    /\ ptPc' = "state"
                    /\ UNCHANGED ptResult
         ELSE PtThrow
    /\ UNCHANGED <<ptChain, ptInput, ptNow>>
    /\ UNCHANGED ptRest

\* Step 3: the readState read.
PtReadState ==
    /\ ptPc = "state"
    /\ \E ok \in BOOLEAN :
         IF ok THEN /\ ptLocals' = [ptLocals EXCEPT
                                      !.lastLnImpliedRate = ptChain.lastLnImpliedRate]
                    /\ ptPc' = "compute"
                    /\ UNCHANGED ptResult
         ELSE PtThrow
    /\ UNCHANGED <<ptChain, ptInput, ptNow>>
    /\ UNCHANGED ptRest

\* Steps 4 to the end.
PtCompute ==
    /\ ptPc = "compute"
    /\ ptResult' = PTFixedYield(ptLocals, ptInput.depositAmount,
                                ptInput.purchaseDate, ptNow)
    /\ ptPc' = "done"
    /\ UNCHANGED <<ptChain, ptInput, ptNow, ptLocals>>
    /\ UNCHANGED ptRest

\* ------------------------------------------------------------------------
\* Part 10: the subgraph mapping (subgraph/src/pendle-market-factory-v-3.ts)
\* ------------------------------------------------------------------------

\* The handler is called at most this many times.
MaxHandled == 3

\* Transaction hashes, as hexadecimal text, and the block of each.
TxHashes == {<<"0", "x", "a", "a">>, <<"0", "x", "b", "b">>}
BlockOf(hash) == IF hash[3] = "a" THEN [number |-> 7, timestamp |-> 1000]
                 ELSE [number |-> 8, timestamp |-> 1012]
\* event.logIndex
LogIndexes == {0, 1, 256}
\* event.params, as createCreateNewMarketEvent passes them: market, PT,
\* scalarRoot, initialAnchor, lnFeeRateRoot.
EventParams ==
    {[market |-> "M1", PT |-> "P1", scalarRoot |-> 234, initialAnchor |-> 234,
      lnFeeRateRoot |-> 234],
     [market |-> "M2", PT |-> "P2", scalarRoot |-> 1, initialAnchor |-> 2,
      lnFeeRateRoot |-> 3]}
CreateNewMarketEvents ==
    {[hash |-> h, logIndex |-> i, block |-> BlockOf(h), params |-> p] :
        h \in TxHashes, i \in LogIndexes, p \in EventParams}

\* bytes.concatI32(i): the bytes followed by the four bytes of i.
concatI32_Dropped(bytes, i) == bytes
concatI32(bytes, i) == bytes \o SubSeq(Bytes_fromI32(i), 3, 10)

\* store.set(id, entity): the entity saved under an id replaces the one there.
StoreSet(store, entity) ==
    [id \in DOMAIN store \cup {entity.id} |->
        IF id = entity.id THEN entity ELSE store[id]]

\* The CreateNewMarket entity handleCreateNewMarket fills.
CreateNewMarketEntity(event) ==
    [id |-> concatI32(event.hash, event.logIndex),
     market |-> event.params.market,
     PT |-> event.params.PT,
     scalarRoot |-> event.params.scalarRoot,
     initialAnchor |-> event.params.initialAnchor,
     lnFeeRateRoot |-> event.params.lnFeeRateRoot,
     blockNumber |-> event.block.number,
     blockTimestamp |-> event.block.timestamp,
     transactionHash |-> event.hash]

\* The Market entity handleCreateNewMarket fills.
MarketEntity(event) ==
    [id |-> event.params.market,
     address |-> event.params.market,
     principalToken |-> event.params.PT,
     createdAt |-> event.block.timestamp,
     creationTx |-> event.hash]

\* A subgraph starts with an empty store.
InitSg ==
    /\ sgCreateNewMarket = <<>>
    /\ sgMarket = <<>>
    /\ sgTemplates = <<>>
    /\ sgHandled = <<>>

SgIdle == InitSg

\* handleCreateNewMarket(event): entity.save(), market.save(),
\* PendleMarket.create(event.params.market).
handleCreateNewMarket ==
    /\ Len(sgHandled) < MaxHandled
    /\ \E event \in CreateNewMarketEvents :
        /\ sgCreateNewMarket' =
               StoreSet(sgCreateNewMarket, CreateNewMarketEntity(event))
        /\ sgMarket' = StoreSet(sgMarket, MarketEntity(event))
        /\ sgTemplates' = Append(sgTemplates, event.params.market)
        /\ sgHandled' = Append(sgHandled, event)
    /\ UNCHANGED sgRest

NextPager == SendRequest \/ ReceivePage \/ Enrich \/ IndexerInsert

InitPagerSpec == InitPager /\ InitMeta /\ InitPrice /\ FormatIdle /\ EnrichIdle /\ AprIdle /\ CalcIdle /\ CmdIdle /\ PtIdle /\ SgIdle

SpecPager == InitPagerSpec /\ [][NextPager]_vars

\* No paged fetch runs while the metadata caches are exercised.
PagerIdle ==
    /\ kind = "marketRewards"
    /\ dataset = <<>>
    /\ inserts = 0
    /\ pc = "idle"
    /\ allItems = <<>>
    /\ currentPage = 0
    /\ hasMoreData = TRUE
    /\ requests = <<>>
    /\ outstanding = {}
    /\ pages = <<>>
    /\ errorsSeen = <<>>
    /\ httpFailures = 0
    /\ thrown = NoError
    /\ result = NoResult
    /\ pushed = {}
    /\ sentAtFailure = 0

InitMetaSpec == PagerIdle /\ InitMeta /\ InitPrice /\ FormatIdle /\ EnrichIdle /\ AprIdle /\ CalcIdle /\ CmdIdle /\ PtIdle /\ SgIdle

NextToken == StartTokenCall \/ TokenReadsSettle

SpecToken == InitMetaSpec /\ [][NextToken]_vars

NextMarket ==
    StartMarketCall \/ MarketReadsSettle \/ TokenReadsSettle \/ MarketContinue

SpecMarket == InitMetaSpec /\ [][NextMarket]_vars

InitPriceSpec == PagerIdle /\ InitMeta /\ InitPrice /\ FormatIdle /\ EnrichIdle /\ AprIdle /\ CalcIdle /\ CmdIdle /\ PtIdle /\ SgIdle

NextPrice ==
    StartPriceCall \/ PriceFetchSettle \/ SetCacheTimeout \/ Construct

SpecPrice == InitPriceSpec /\ [][NextPrice]_vars

\* getTokenPrice calls that may overlap.
InitPriceOverlapSpec == PagerIdle /\ InitMeta /\ InitPrice /\ FormatIdle /\ EnrichIdle /\ AprIdle /\ CalcIdle /\ CmdIdle /\ PtIdle /\ SgIdle

NextPriceOverlap ==
    StartPriceCall \/ StartPriceCallOverlapping \/ PriceFetchSettle

SpecPriceOverlap == InitPriceOverlapSpec /\ [][NextPriceOverlap]_vars

InitFormatSpec == PagerIdle /\ InitMeta /\ InitPrice /\ InitFormat /\ EnrichIdle /\ AprIdle /\ CalcIdle /\ CmdIdle /\ PtIdle /\ SgIdle

NextFormat == FormatLine

SpecFormat == InitFormatSpec /\ [][NextFormat]_vars

InitEnrichSpec == PagerIdle /\ InitMeta /\ InitPrice /\ FormatIdle /\ InitEnrich /\ AprIdle /\ CalcIdle /\ CmdIdle /\ PtIdle /\ SgIdle

NextEnrich == EnrichEventBegin \/ EnrichLine \/ TotalRewards

SpecEnrich == InitEnrichSpec /\ [][NextEnrich]_vars

InitAprSpec == PagerIdle /\ InitMeta /\ InitAprPrice /\ FormatIdle /\ EnrichIdle /\ InitApr /\ CalcIdle /\ CmdIdle /\ PtIdle /\ SgIdle

NextApr ==
    AprBegin \/ AprPosition \/ AprRewardTokens \/ AprTokenBegin \/ AprPriceSettle
    \/ AprPending \/ AprCompute

SpecApr == InitAprSpec /\ [][NextApr]_vars

InitCalcSpec == PagerIdle /\ InitMeta /\ InitPrice /\ FormatIdle /\ EnrichIdle /\ AprIdle /\ InitCalc /\ CmdIdle /\ PtIdle /\ SgIdle

NextCalc == CalcApply

SpecCalc == InitCalcSpec /\ [][NextCalc]_vars

InitCmdSpec == PagerIdle /\ InitMeta /\ InitPrice /\ FormatIdle /\ EnrichIdle /\ AprIdle /\ CalcIdle /\ InitCmd /\ PtIdle /\ SgIdle

NextCmd == CmdStart \/ CmdCompute \/ CmdNoResult \/ CmdExport \/ CmdHandle

SpecCmd == InitCmdSpec /\ [][NextCmd]_vars

InitPtSpec == PagerIdle /\ InitMeta /\ InitPrice /\ FormatIdle /\ EnrichIdle /\ AprIdle /\ CalcIdle /\ CmdIdle /\ InitPt /\ SgIdle

NextPt == PtReadMarket \/ PtReadToken \/ PtReadState \/ PtCompute

SpecPt == InitPtSpec /\ [][NextPt]_vars

\* The subgraph mapping.
InitSgSpec == PagerIdle /\ InitMeta /\ InitPrice /\ FormatIdle /\ EnrichIdle /\ AprIdle /\ CalcIdle /\ CmdIdle /\ PtIdle /\ InitSg
NextSg == handleCreateNewMarket
SpecSg == InitSgSpec /\ [][NextSg]_vars

\* ------------------------------------------------------------------------
\* Properties of the pagers
\* ------------------------------------------------------------------------

RECURSIVE Flatten(_)
Flatten(ps) == IF ps = <<>> THEN <<>> ELSE Head(ps) \o Flatten(Tail(ps))

Count(s, x) == Cardinality({i \in 1..Len(s) : s[i] = x})

LastPageShort == Len(pages) >= 1 /\ Len(pages[Len(pages)]) < MAX_ITEMS_PER_PAGE

\* C1: over a dataset that does not change during pagination, every paged
\* fetch that returns hands back exactly the N records of the dataset, each
\* one once and none missing (N = 0, P, P+1, 3P-1 among the sizes).
C1_PaginationComplete ==
    (pc = "done" /\ inserts = 0) =>
        /\ result.returned
        /\ Len(result.items) = Len(dataset)
        /\ Range(result.items) = Range(dataset)
        /\ Cardinality(Range(result.items)) = Len(dataset)

C1_Witness ==
    /\ pc = "done"
    /\ inserts = 0
    /\ Len(dataset) = 3 * MAX_ITEMS_PER_PAGE - 1
    /\ Len(result.items) = 3 * MAX_ITEMS_PER_PAGE - 1

\* C2: requests go out one at a time at offsets 0, P, 2P, ..., the next only
\* after the previous page arrived; the loop stops after the first page
\* shorter than P; the pages are concatenated in the order received; over a
\* static dataset of N records a returning fetch sent floor(N/P)+1 requests.
C2_SequentialPaging ==
    /\ Cardinality(outstanding) <= 1
    /\ \A i \in 1..Len(requests) : requests[i] = (i - 1) * MAX_ITEMS_PER_PAGE
    /\ Len(requests) = Len(pages) + Cardinality(outstanding)
                         + (IF sentAtFailure > Len(pages) THEN 1 ELSE 0)
    /\ \A i \in 1..(Len(pages) - 1) : Len(pages[i]) = MAX_ITEMS_PER_PAGE
    /\ LastPageShort <=> pc \in {"enrich", "done"} \/ thrown = ContractReadError
    /\ allItems = Flatten(pages)
    /\ pc = "done" => result = Returned(allItems)
    /\ (pc = "done" /\ inserts = 0) =>
           Len(requests) = (Len(dataset) \div MAX_ITEMS_PER_PAGE) + 1

C2_Witness ==
    /\ pc = "done"
    /\ inserts = 0
    /\ Len(requests) = 3
    /\ Len(dataset) = 2 * MAX_ITEMS_PER_PAGE

\* C3: whenever the upstream answers a page request with an errors array,
\* the paged fetch (of any of the three kinds) fails with an error carrying
\* the first error's message and returns no records.
C3_ErrorPayloadFails ==
    errorsSeen # <<>> =>
        /\ pc = "failed"
        /\ thrown = GraphQLError(errorsSeen[1][1])
        /\ result = NoResult

\* C4: a non-OK HTTP answer fails the paged fetch with that error at once:
\* no further request is sent, the failed one is not sent again, and nothing
\* of the pages already received is returned.
C4_TransportErrorFailsAtOnce ==
    httpFailures > 0 =>
        /\ pc = "failed"
        /\ thrown = HttpError(500)
        /\ result = NoResult
        /\ httpFailures = 1
        /\ outstanding = {}
        /\ Len(requests) = sentAtFailure
        /\ \A i, j \in 1..Len(requests) : i # j => requests[i] # requests[j]

C4_Witness ==
    /\ httpFailures = 1
    /\ pc = "failed"
    /\ Len(pages) = 2
    /\ Len(allItems) = 2 * MAX_ITEMS_PER_PAGE

\* C5: no deduplication: a record pushed across the offset boundary by an
\* insert at the head of the dataset between two page fetches is in the
\* returned list twice, so the list is not duplicate-free.
C5_NoDedup ==
    (pc = "done" /\ pushed # {}) =>
        /\ \A r \in pushed : Count(result.items, r) = 2
        /\ Cardinality(Range(result.items)) < Len(result.items)

C5_Witness ==
    /\ pc = "done"
    /\ pushed # {}
    /\ kind = "redeemRewards"
    /\ Len(result.items) = MAX_ITEMS_PER_PAGE + 1

\* ------------------------------------------------------------------------
\* Properties of the token cache
\* ------------------------------------------------------------------------

Fallbacks(id) == {FallbackInfo(Addr(id, c)) : c \in Cases}

\* C6: when the calls of getTokenInfo for one token follow one another (each
\* begins after the one before has returned), in whatever letter case the
\* address is given, the name/symbol/decimals reads are issued exactly once
\* and every call returns the same descriptor.
C6_SecondCallHitsCache ==
    \A id \in TokenIds :
        id \notin overlapped =>
            /\ readsIssued[id] <= 1
            /\ returnsCount[id] >= 1 => readsIssued[id] = 1
            /\ Cardinality(returned[id]) <= 1

C6_Witness ==
    /\ Len(tasks) >= 2
    /\ tasks[1].address = Addr("RA", "checksum")
    /\ tasks[2].address = Addr("RA", "lower")
    /\ tasks[1].pc = "done"
    /\ tasks[2].pc = "done"
    /\ "RA" \notin overlapped
    /\ returnsCount["RA"] = 2
    /\ readsIssued["RA"] = 1
    /\ tasks[2].sub.value = tasks[1].sub.value

\* C7: once the reads for a token have failed and the fallback was cached,
\* every getTokenInfo call for it that begins later returns the fallback
\* (symbol UNKNOWN, decimals 18) and issues no read.
C7_FallbackSticks ==
    \A id \in TokenIds :
        /\ id \notin lateReads
        /\ lateReturned[id] \subseteq Fallbacks(id)

\* Two descriptors of the same token contract with the same name, symbol and
\* decimals (the letter case of the address field set aside).
SameDescriptor(a, b) ==
    /\ toLowerCase(a.address) = toLowerCase(b.address)
    /\ a.name = b.name
    /\ a.symbol = b.symbol
    /\ a.decimals = b.decimals

\* C9: a descriptor stored in the token cache is never replaced by a
\* different one, whatever the interleaving of the getTokenInfo calls.
C9_TokenEntryNeverReplaced ==
    [][\A k \in DOMAIN tokenCache : SameDescriptor(tokenCache'[k], tokenCache[k])]_vars

\* ------------------------------------------------------------------------
\* Properties of the market cache
\* ------------------------------------------------------------------------

RewardAddresses(info) ==
    [i \in 1..Len(info.rewardTokens) |-> toLowerCase(info.rewardTokens[i].address)]

\* C8: a getMarketInfo call during which one of the market's contract reads
\* failed returns a descriptor whose principal, yield and standardized-yield
\* tokens are all absent and whose reward-token list is empty.
C8_FailedReadGivesEmptyMarket ==
    \A t \in 1..Len(tasks) :
        (tasks[t].fn = "getMarketInfo" /\ tasks[t].pc = "done" /\ tasks[t].readFailed) =>
            /\ tasks[t].ret.principalToken = Null
            /\ tasks[t].ret.yieldToken = Null
            /\ tasks[t].ret.standardizedYield = Null
            /\ tasks[t].ret.rewardTokens = <<>>

\* C10: all getMarketInfo calls for the market return the same ordered list
\* of reward-token addresses.
C10_RewardOrderStable ==
    \A a \in marketReturned, b \in marketReturned :
        RewardAddresses(a) = RewardAddresses(b)

\* ------------------------------------------------------------------------
\* Properties of the price cache
\* ------------------------------------------------------------------------

\* The getTokenPrice calls the state knows: those in flight and the last
\* one that ended.
KnownPriceCalls ==
    Range(priceCalls) \cup (IF lastCall.pc = "none" THEN {} ELSE {lastCall})

AgeAtCall(c) == c.now - c.stored.timestamp

\* C11: getTokenPrice answers from the cache, without a fetch, exactly when
\* the key had an entry whose age at the call was strictly below the
\* configured timeout (120000 ms unless setCacheTimeout changed it); with no
\* entry, or an entry as old as the timeout or older, it attempts a fetch.
C11_HitIffYoungerThanTimeout ==
    \A c \in KnownPriceCalls :
        /\ c.timeoutMs \in {120000} \cup {m * 60 * 1000 : m \in TimeoutMinutes}
        /\ IF c.stored.set /\ AgeAtCall(c) < c.timeoutMs
           THEN ~c.fetched /\ c.pc = "returned" /\ c.value = c.stored.price
           ELSE c.fetched

\* A call answered from an entry one minute old under the default timeout.
C11_Witness ==
    /\ lastCall.pc = "returned"
    /\ ~lastCall.fetched
    /\ lastCall.stored.set
    /\ AgeAtCall(lastCall) = 60000
    /\ lastCall.timeoutMs = 120000

\* C12: a call whose fetch failed returns the price stored for its key,
\* whatever the age of that entry, and fails only when the cache holds no
\* price for the key.
C12_FetchFailureFallsBack ==
    (lastCall.fetched /\ ~lastCall.fetchOk /\ lastCall.pc \in {"returned", "thrown"}) =>
        IF lastCall.storedAtFailure.set
        THEN lastCall.pc = "returned"
             /\ lastCall.value = lastCall.storedAtFailure.price
        ELSE lastCall.pc = "thrown"

\* A failed fetch answered with an entry that is at least as old as the
\* timeout.
C12_Witness ==
    /\ lastCall.fetched
    /\ ~lastCall.fetchOk
    /\ lastCall.pc = "returned"
    /\ lastCall.storedAtFailure.set
    /\ lastCall.now - lastCall.storedAtFailure.timestamp >= lastCall.timeoutMs

\* The cache file read back.
FileHoldsMemory ==
    /\ diskFile.exists
    /\ JSON_parse(diskFile.content).ok
    /\ Entries(AsPriceCache(JSON_parse(diskFile.content))) = Entries(priceCache)

C14_UnparsableFileStartsEmpty ==
    /\ (lastOp.op = "construct" /\ loadFailed) => (procUp /\ priceCache = <<>>)
    /\ \A c \in KnownPriceCalls : c.afterBadLoad => c.fetched

\* The first call after such a construction has fetched and stored a price.
C14_Witness ==
    /\ lastCall.afterBadLoad
    /\ lastCall.fetchOk
    /\ lastOp.op = "fetched"
    /\ constructions >= 1

\* ------------------------------------------------------------------------
\* Properties of amount formatting
\* ------------------------------------------------------------------------

\* The formatted amount converted back to raw units: the digits before the
\* point followed by the digits after it filled up to decimals places.
IndexOfPoint(str) ==
    IF \E i \in 1..Len(str) : str[i] = "."
    THEN CHOOSE i \in 1..Len(str) : str[i] = "." ELSE Len(str) + 1
ToRaw(formatted, decimals) ==
    LET point == IndexOfPoint(formatted)
        integer == SubSeq(formatted, 1, point - 1)
        fraction == SubSeq(formatted, point + 1, Len(formatted))
    IN IF Len(fraction) > decimals THEN <<"lossy">>
       ELSE BigIntToString(integer \o fraction \o Zeros(decimals - Len(fraction)))

RECURSIVE SumStrings(_)
SumStrings(list) ==
    IF list = <<>> THEN <<"0">> ELSE AddStrings(Head(list), SumStrings(Tail(list)))

\* C18: formatting loses nothing: every formatted amount converted back with
\* the same decimals is the raw amount it came from (amounts up to 10^30,
\* decimals from 0 to 31), so the formatted amounts of a list of lines,
\* converted back and summed, give the sum of the raw amounts.
C18_FormatRoundTrip ==
    /\ \A i \in 1..Len(fmtFormatted) :
          ToRaw(fmtFormatted[i], fmtDecimals) = BigIntToString(fmtAmounts[i])
    /\ Len(fmtFormatted) = Len(fmtAmounts) =>
          SumStrings([i \in 1..Len(fmtFormatted) |->
                         ToRaw(fmtFormatted[i], fmtDecimals)])
            = SumStrings(fmtAmounts)

\* Two lines of 18 decimals, 10^30 and 5050 raw units, formatted.
C18_Witness ==
    /\ fmtDecimals = 18
    /\ fmtAmounts = <<PowerOfTen(30), <<"5", "0", "5", "0">> >>
    /\ fmtFormatted = <<PowerOfTen(12), <<"0", ".">> \o Zeros(14) \o <<"5", "0", "5">> >>

\* ------------------------------------------------------------------------
\* Properties of reward enrichment and totals
\* ------------------------------------------------------------------------

\* The position of rewardsOut a reference stands for.
MaxDenotedIndex == 300
DenotedIndex(token) == CHOOSE i \in 0..MaxDenotedIndex : Bytes_fromI32(i) = token

ExampleRewards == <<RewardLine(0, PowerOfTen(6)), RewardLine(1, <<"2">> \o Zeros(6))>>
ListIsAB(market) ==
    /\ Len(market.rewardTokens) = 2
    /\ market.rewardTokens[1] = TokenInfo(Addr("RA", "checksum"))
    /\ market.rewardTokens[2] = TokenInfo(Addr("RB", "checksum"))
OnePointZero == <<"1", ".", "0">>
TwoMicroOf18 == <<"0", ".">> \o Zeros(11) \o <<"2">>

\* The enriched line j of event k names the token at the denoted place of
\* the market's reward list, or the zero address past its end, and carries
\* the amount formatted with the decimals of its token.
LineResolved(k, j) ==
    LET source == enrEvents[k].rewards[j]
        line == enrichedEvents[k].rewards[j]
        list == enrichedEvents[k].market.rewardTokens
        i == DenotedIndex(source.token)
    IN /\ line.token.address[1] =
            (IF i < Len(list) THEN list[i + 1].address ELSE ZeroAddress)[1]
       /\ line.amount = source.amount
       /\ line.amountFormatted = formatUnits(source.amount, line.token.decimals)

\* C15 as stated: every reward line resolves to the i-th token of the
\* market's reward list for the index i its reference denotes (the zero
\* address when i is out of range) with the amount formatted in that
\* token's decimals, and list [A, B] (6 and 18 decimals), references [0, 1],
\* amounts [1000000, 2000000] give "1.0" and "0.000000000002".
C15_IndexResolvesAndFormats ==
    \A k \in 1..Len(enrichedEvents) :
        /\ Len(enrichedEvents[k].rewards) = Len(enrEvents[k].rewards)
        /\ \A j \in 1..Len(enrichedEvents[k].rewards) : LineResolved(k, j)
        /\ (enrEvents[k].rewards = ExampleRewards /\ ListIsAB(enrichedEvents[k].market)) =>
              /\ enrichedEvents[k].rewards[1].amountFormatted = OnePointZero
              /\ enrichedEvents[k].rewards[2].amountFormatted = TwoMicroOf18

\* C15 amended: the same for every reference that denotes an index below
\* 256 (the decoder reads the first byte of the reference), and the example
\* gives "1" and "0.000000000002".
C15_FirstByteIndexResolves ==
    \A k \in 1..Len(enrichedEvents) :
        /\ Len(enrichedEvents[k].rewards) = Len(enrEvents[k].rewards)
        /\ \A j \in 1..Len(enrichedEvents[k].rewards) :
              DenotedIndex(enrEvents[k].rewards[j].token) < 256 => LineResolved(k, j)
        /\ (enrEvents[k].rewards = ExampleRewards /\ ListIsAB(enrichedEvents[k].market)) =>
              /\ enrichedEvents[k].rewards[1].amountFormatted = <<"1">>
              /\ enrichedEvents[k].rewards[2].amountFormatted = TwoMicroOf18

\* The example event enriched over the list [A, B], and an event whose
\* reference is out of range resolved to the zero address.
C15_Witness ==
    /\ Len(enrichedEvents) = 2
    /\ enrEvents[1].rewards = ExampleRewards
    /\ ListIsAB(enrichedEvents[1].market)
    /\ enrichedEvents[1].rewards[1].token.symbol = "RA"
    /\ enrichedEvents[1].rewards[2].token.symbol = "RB"
    /\ enrEvents[2].rewards = <<RewardLine(2, <<"7">>)>>
    /\ enrichedEvents[2].rewards[1].token.address = ZeroAddress

IsSentinel(info) == info.symbol = "UNKNOWN"

\* C16: no enriched event shows a reward line whose token resolved to the
\* sentinel descriptor, and once the totals are made the amounts of the
\* lines the events show are all in them.
C16_SentinelLinesDropped ==
    /\ \A k \in 1..Len(enrichedEvents) :
          \A j \in 1..Len(enrichedEvents[k].rewards) :
              ~IsSentinel(enrichedEvents[k].rewards[j].token)
    /\ enrPc = "totalled" =>
          \A k \in 1..Len(enrichedEvents) :
              \A j \in 1..Len(enrichedEvents[k].rewards) :
                  \E g \in 1..Len(totals) :
                      totals[g].address = enrichedEvents[k].rewards[j].token.address

\* C17: the failure of a token's reads never makes the enrichment fail, and
\* what it returns holds one enriched event per fetched event in the
\* fetched order.
C17_TokenFailureDoesNotAbort ==
    /\ enrPc # "failed"
    /\ enrPc \in {"returned", "totalled"} =>
          /\ Len(enrichedEvents) = Len(enrEvents)
          /\ \A k \in 1..Len(enrEvents) : enrichedEvents[k].id = enrEvents[k].id

\* Two events returned although the reads of token B failed.
C17_Witness ==
    /\ enrPc = "returned"
    /\ failingTokens = {"RB"}
    /\ marketReads = <<TRUE, TRUE>>
    /\ Len(enrichedEvents) = 2
    /\ \E j \in 1..Len(enrichedEvents[1].rewards) :
          /\ enrichedEvents[1].rewards[j].token.address[1] = "RB"
          /\ IsSentinel(enrichedEvents[1].rewards[j].token)

ShownRewards == AllRewards(enrichedEvents)
ShownAddresses == {ShownRewards[i].token.address : i \in 1..Len(ShownRewards)}
RECURSIVE SumOfAddress(_, _)
SumOfAddress(rewards, address) ==
    IF rewards = <<>> THEN 0
    ELSE (IF Head(rewards).token.address = address
          THEN StringToInt(Head(rewards).amount) ELSE 0)
         + SumOfAddress(Tail(rewards), address)
DecimalsOfAddress(address) ==
    ShownRewards[CHOOSE i \in 1..Len(ShownRewards) :
                    ShownRewards[i].token.address = address].token.decimals

\* C19: the totals hold one entry per distinct token address of the
\* enriched lines, and the entry of an address, read back with the token's
\* decimals, is the integer sum of the raw amounts of all lines of that
\* address.
C19_TotalsAreExactSums ==
    enrPc = "totalled" =>
        /\ Len(totals) = Cardinality(ShownAddresses)
        /\ \A a \in ShownAddresses :
              \E g \in 1..Len(totals) :
                  /\ totals[g].address = a
                  /\ StringToInt(ToRaw(totals[g].total, DecimalsOfAddress(a)))
                       = SumOfAddress(ShownRewards, a)

\* Two events of the example: 2000000 units of A (6 decimals) in one total.
C19_Witness ==
    /\ enrPc = "totalled"
    /\ Len(totals) = 2
    /\ totals[1].symbol = "RA"
    /\ totals[1].total = <<"2">>
    /\ totals[2].total = <<"0", ".">> \o Zeros(11) \o <<"4">>

\* ------------------------------------------------------------------------
\* Properties of the position APR
\* ------------------------------------------------------------------------

\* C20: the position APR computation ends with an error and no APR
\* whenever a contract read or a price lookup that the pending rewards need
\* has failed: an APR is returned only when the reward-token list, the
\* identity of every token, every price and the accrued reward of every
\* token were obtained.
C20_FailureGivesNoApr ==
    aprResult.kind = "apr" => aprFailures = {}

\* C21: when the arguments of the position APR computation are invalid
\* (deposit amount not positive, deposit date unparsable, or deposit date
\* not before now, so that daysElapsed <= 0), no contract read and no price
\* fetch has been issued at any point of the computation.
InvalidAprInput ==
    \/ aprInput.depositAmount <= 0
    \/ ~aprInput.dateValid
    \/ aprInput.daysElapsed <= 0

C21_InvalidInputFailsBeforeReads ==
    (aprPc # "idle" /\ InvalidAprInput) => aprIssued = {}

\* The reward tokens that are not in the table of feed ids.
UnlistedTokens == {"RC", "RP"}
FetchedFor(id) == Issued("fetch", id) \in aprIssued

\* C27: a token address absent from the table of feed ids has no feed id,
\* in either letter case, and no price fetch is issued for that token when
\* the pending rewards are valued.
C27_UnlistedTokenNeverFetched ==
    \A id \in UnlistedTokens :
        /\ \A c \in Cases : getCoinGeckoIdFromAddress(Addr(id, c)) = NoFeedId
        /\ ~FetchedFor(id)

\* C27, amended: a token address absent from the table has no feed id, in
\* either letter case; when its symbol is neither PENDLE nor SONIC no price
\* fetch is issued for it and its reward is valued at the price 0.
C27_UnlistedUnnamedTokenNeverFetched ==
    \A id \in UnlistedTokens :
        /\ \A c \in Cases : getCoinGeckoIdFromAddress(Addr(id, c)) = NoFeedId
        /\ ERC20(id).symbol \notin {"PENDLE", "SONIC"} =>
              /\ ~FetchedFor(id)
              /\ \A i \in 1..Len(aprRewards) :
                    aprRewards[i].token[1] = id => aprRewards[i].price = 0

\* An unlisted token with a symbol of its own has been valued with a
\* positive accrued amount.
C27_Witness ==
    \E i \in 1..Len(aprRewards) :
        /\ aprRewards[i].token[1] = "RC"
        /\ aprRewards[i].amount # <<"0">>

\* ------------------------------------------------------------------------
\* Properties of calculateAPR
\* ------------------------------------------------------------------------

\* C22: calculateAPR throws and returns no number whenever depositedUSD <= 0,
\* totalRewardsUSD < 0 or daysElapsed <= 0; for all other arguments it
\* returns (totalRewardsUSD / depositedUSD) * (365 / daysElapsed) * 100
\* rounded to 2 decimal places: the result in hundredths of a percent is
\* within half a hundredth of the exact quotient, and
\* calculateAPR(100, 10, 365) = 10.00.
InvalidCalcArgs ==
    \/ calcArgs.depositedTotalUSD <= 0
    \/ calcArgs.totalRewardsUSD < 0
    \/ calcArgs.daysElapsed <= 0

C22_CalculateAPR ==
    calcResult.called =>
       LET n == calcArgs.totalRewardsUSD * 365
           d == calcArgs.depositedTotalUSD * calcArgs.daysElapsed
           off == calcResult.apr * d - 100 * n
       IN IF InvalidCalcArgs THEN calcResult.threw
          ELSE /\ ~calcResult.threw
               /\ 2 * off <= d
               /\ 0 - 2 * off <= d
               /\ (calcArgs = [depositedTotalUSD |-> 100, totalRewardsUSD |-> 1000,
                               daysElapsed |-> 365]) => calcResult.apr = 1000

\* calculateAPR(100, 10, 365) has returned 10.00.
C22_Witness ==
    /\ calcResult.called
    /\ calcArgs = [depositedTotalUSD |-> 100, totalRewardsUSD |-> 1000,
                   daysElapsed |-> 365]
    /\ calcResult.apr = 1000

\* ------------------------------------------------------------------------
\* Properties of the report commands
\* ------------------------------------------------------------------------

\* C23: every report command whose computation has failed has printed the
\* error and has ended with a non-zero exit status.
C23_FailureExitsNonZero ==
    (cmdPc = "exited" /\ cmdFailure # NoFailure) =>
        /\ cmdStderr # <<>>
        /\ cmdStderr[Len(cmdStderr)] = cmdFailure
        /\ cmdExit # 0

\* ------------------------------------------------------------------------
\* Properties of the PT fixed yield
\* ------------------------------------------------------------------------

\* C24: the PT computation never returns a result whose percentage gain is
\* not finite, and when the initial value is zero (no tokens held and no
\* deposit given) it ends with an error, not with a result or with null.
NoTokensNoDeposit ==
    /\ ptInput.depositAmount <= 0
    /\ StripLeadingZeros(ptLocals.ptBalance) = <<>>

C24_ZeroInitialValueFails ==
    /\ ptResult.kind = "result" => ptResult.finite
    /\ (ptPc = "done" /\ NoTokensNoDeposit) => ptResult.kind = "error"

\* C25: whenever a purchase date is supplied, the estimated purchase price
\* of the result lies in [0.95, 0.99].
C25_PurchasePriceClamped ==
    (ptResult.kind = "result" /\ ptInput.purchaseDate # NoPurchaseDate) =>
        /\ ~FracLess(ptResult.estimatedPurchasePrice, Frac(95, 100))
        /\ ~FracLess(Frac(99, 100), ptResult.estimatedPurchasePrice)

\* C26: the PT price is exactly 1.0 when the time to maturity is 0; for a
\* positive implied rate it is below 1.0 when the time to maturity is
\* positive, and strictly smaller for a longer time to maturity.
MaturitySamples == {TimeToMaturity(e, t) : e \in PtExpiries, t \in PtCurrentTimes \cup PtPurchaseDates}
PositiveRates == {r.percentage : r \in {x \in LnImpliedRates : x.percentage > 0}}

C26_PTPriceBoundary ==
    /\ ptResult.kind = "result" =>
         LET s == TimeToMaturity(ptLocals.expiry, ptNow)
             rate == impliedRatePercentage(ptLocals.lastLnImpliedRate)
         IN /\ s = 0 => ptResult.ptPrice = One
            /\ (s > 0 /\ rate > 0) => FracLess(ptResult.ptPrice, One)
    /\ \A rate \in PositiveRates, s1 \in MaturitySamples, s2 \in MaturitySamples :
         /\ PTPrice(rate, 0) = One
         /\ s1 < s2 => FracLess(PTPrice(rate, s2), PTPrice(rate, s1))

\* A result was returned for a market that has not expired and has a
\* positive implied rate.
C26_Witness ==
    /\ ptResult.kind = "result"
    /\ ptLocals.expiry > ptNow
    /\ impliedRatePercentage(ptLocals.lastLnImpliedRate) > 0
    /\ FracLess(ptResult.ptPrice, One)

\* ------------------------------------------------------------------------
\* Properties of overlapping calls
\* ------------------------------------------------------------------------

\* C29: when getTokenInfo calls for one uncached address overlap, the
\* name/symbol/decimals reads for the address are issued only once in the
\* process.
C29_OverlapReadsOnce ==
    \A id \in overlapped : readsIssued[id] <= 1

\* C30: for any interleaving of getTokenPrice calls on one key, calls whose
\* fetches overlap included, the timestamp stored for the key never
\* decreases.
C30_StoredTimestampNeverDecreases ==
    [][\A id \in FeedIds :
          GetEntry(priceCache, id).set =>
              /\ GetEntry(priceCache', id).set
              /\ GetEntry(priceCache', id).timestamp
                     >= GetEntry(priceCache, id).timestamp]_vars

\* ------------------------------------------------------------------------
\* Properties of the subgraph mapping
\* ------------------------------------------------------------------------

\* The identifier of an event: its transaction hash joined with the four
\* bytes of its log index.
HashJoinedWithLogIndex(event) ==
    event.hash \o HexOfByte(event.logIndex % 256)
    \o HexOfByte((event.logIndex \div 256) % 256)
    \o HexOfByte((event.logIndex \div 65536) % 256)
    \o HexOfByte((event.logIndex \div 16777216) % 256)

DistinctIdentifiers ==
    \A i, j \in 1..Len(sgHandled) :
        i # j => <<sgHandled[i].hash, sgHandled[i].logIndex>>
                 # <<sgHandled[j].hash, sgHandled[j].logIndex>>

====
